---- MODULE Spec2Model ----
(***************************************************************************)
(* State-machine model of the news portal's GraphQL facade.                *)
(*                                                                         *)
(* The repository holds two mutation modules over the same Django models:  *)
(* newsportal/mutations.py (relay global ids, GraphQLError; operators      *)
(* prefixed m_) and newsportal/schema.py (raw primary keys, bare           *)
(* Exception; operators prefixed s_).  The relational tables are sets of   *)
(* rows, each row a record with its primary key in the field id.           *)
(***************************************************************************)
EXTENDS Integers, Sequences, FiniteSets, TLC

VARIABLES
    users,          \* users.User rows
    categories,     \* categories.Category rows
    tags,           \* news.Tag rows (the target of Article.tags)
    taggit,         \* taggit.Tag rows (the Tag that mutations.py imports)
    articles,       \* news.Article rows
    comments,       \* news.Comment rows
    likes,          \* news.Like rows
    bookmarks,      \* news.Bookmark rows
    nextId,         \* per-table auto-increment primary-key sequences
    now,            \* the value timezone.now() returns
    resp,           \* what the last facade call returned to its caller (found: the ids
                    \* of the rows a query returned); for a like or bookmark call also
                    \* the rows of the table as the call found them
    everPublished,  \* history: ids of stored articles whose status has been "published" at a save
    calls           \* requests in flight, for the step-by-step get_or_create model

vars == <<users, categories, tags, taggit, articles, comments, likes, bookmarks,
          nextId, now, resp, everPublished, calls>>

(***************************************************************************)
(* Bounds of the model.                                                    *)
(***************************************************************************)
MaxArticles == 2        \* article primary keys handed out
MaxTags == 2            \* tag primary keys handed out, per tag table
MaxClock == 2           \* distinct instants timezone.now() takes

(***************************************************************************)
(* Optional values: Python's None and a present value.                     *)
(***************************************************************************)
None == <<>>
Some(x) == <<x>>
IsNone(o) == o = <<>>
Val(o) == o[1]

(***************************************************************************)
(* Strings are sequences of one-character strings, so that the slug        *)
(* transforms can be computed.                                             *)
(***************************************************************************)
Lower(c) == CASE c = "A" -> "a" [] c = "B" -> "b" [] OTHER -> c

IsWordChar(c) == c \in {"a", "b", "_"}
IsSepChar(c) == c \in {" ", "-"}

MapLower(s) == [i \in 1..Len(s) |-> Lower(s[i])]

KeepSlugChar(c) == IsWordChar(c) \/ IsSepChar(c)

RECURSIVE CollapseSeps(_)
CollapseSeps(s) ==
    IF s = <<>> THEN <<>>
    ELSE IF IsSepChar(Head(s))
         THEN IF Len(s) > 1 /\ IsSepChar(s[2])
              THEN CollapseSeps(Tail(s))
              ELSE <<"-">> \o CollapseSeps(Tail(s))
         ELSE <<Head(s)>> \o CollapseSeps(Tail(s))

RECURSIVE StripLeft(_)
StripLeft(s) ==
    IF s # <<>> /\ Head(s) \in {"-", "_"} THEN StripLeft(Tail(s)) ELSE s

RECURSIVE StripRight(_)
StripRight(s) ==
    IF s # <<>> /\ s[Len(s)] \in {"-", "_"}
    THEN StripRight(SubSeq(s, 1, Len(s) - 1)) ELSE s

\* django.utils.text.slugify: lower-case, drop what is not a word character,
\* white space or hyphen, turn runs of white space and hyphens into one hyphen,
\* strip hyphens and underscores at both ends.
slugify(s) == StripRight(StripLeft(CollapseSeps(SelectSeq(MapLower(s), KeepSlugChar))))

\* news.Tag.save: name.lower().replace(" ", "-")
TagSlug(name) == [i \in 1..Len(name) |-> IF Lower(name[i]) = " " THEN "-" ELSE Lower(name[i])]

TitleA == <<"A", " ", "b">>
TitleB == <<"a", "-", "b">>
TitleC == <<"b">>
Titles == {TitleA, TitleB, TitleC}
TagNames == {TitleA, TitleC}

(***************************************************************************)
(* Users.  The caller of a request is info.context.user: a stored user or  *)
(* the anonymous user.                                                     *)
(***************************************************************************)
Anonymous == 0

SeedUsers ==
    { [id |-> 1, role |-> "reader", bio |-> <<>>, username |-> "u1", email |-> "u1@x"],
      [id |-> 2, role |-> "journalist", bio |-> <<>>, username |-> "u2", email |-> "u2@x"],
      [id |-> 3, role |-> "journalist", bio |-> <<>>, username |-> "u3", email |-> "u3@x"],
      [id |-> 4, role |-> "editor", bio |-> <<>>, username |-> "u4", email |-> "u4@x"] }

UserIds == {u.id : u \in SeedUsers}
Callers == {Anonymous} \cup UserIds

is_authenticated(u) == u # Anonymous

UserRow(u) == CHOOSE r \in users : r.id = u
Role(u) == UserRow(u).role
is_journalist(u) == Role(u) = "journalist"
is_editor(u) == Role(u) = "editor"

(***************************************************************************)
(* Relay global ids: "TypeName:pk" (base64-encoded on the wire).           *)
(***************************************************************************)
to_global_id(type_name, pk) == <<type_name, ":", pk>>
from_global_id(gid) == <<gid[1], gid[3]>>

(***************************************************************************)
(* Table helpers.                                                          *)
(***************************************************************************)
Ids(table) == {r.id : r \in table}
ByPk(table, pk) == {r \in table : r.id = pk}
Row(table, pk) == CHOOSE r \in table : r.id = pk
Replace(table, row) == (table \ ByPk(table, row.id)) \cup {row}

\* Outcome of a handler: the error kind ("ok" when it returns), the primary key of
\* the entity returned (val) or the success flag returned, and the row it wrote.
Fail(kind) == [err |-> kind, val |-> None, success |-> None]

\* an exception raised after the row was saved, with the write committed all the same
atomic_Commit(kind, row) == [err |-> kind, val |-> None, success |-> None, row |-> row]

\* @transaction.atomic: an exception raised inside the handler rolls back the row
\* the handler had saved, so the failed call leaves no row behind
atomic(kind, row) == Fail(kind)

(***************************************************************************)
(* Permission helpers of mutations.py.                                     *)
(***************************************************************************)
\* require_auth that turns readers away as well
require_auth_NoReaders(u) == is_authenticated(u) /\ Role(u) # "reader"

\* require_auth(info) raises iff this is FALSE
require_auth(u) == is_authenticated(u)

\* require_role that lets every role through
require_role_Any(u, roles) == TRUE

\* require_role(user, roles) raises iff this is FALSE
require_role(u, roles) == Role(u) \in roles

(***************************************************************************)
(* Article.save: derive the slug when blank, stamp published_at when the   *)
(* status is "published" and no stamp is there.                            *)
(***************************************************************************)
ArticleSaveSlug(a) == IF a.slug = <<>> THEN slugify(a.title) ELSE a.slug

\* Article.save without the stamping branch
ArticleSaveStamp_Never(a) == a.published_at

ArticleSaveStamp(a) ==
    IF a.status = "published" /\ IsNone(a.published_at) THEN Some(now) ELSE a.published_at

ArticleSave(a) == [a EXCEPT !.slug = ArticleSaveSlug(a), !.published_at = ArticleSaveStamp(a)]

\* unique=True on Article.slug: the row cannot be written while another row has its slug
ArticleSlugTaken(a) == \E b \in articles : b.id # a.id /\ b.slug = a.slug

\* The history of "status was published when the row was saved".
TrackPublished(newArticles) ==
    (everPublished \cup {a.id : a \in {b \in newArticles : b.status = "published"}})
        \cap Ids(newArticles)

(***************************************************************************)
(* Cascading deletes (on_delete=CASCADE).                                  *)
(***************************************************************************)
\* the comments in S and every reply to them, at any depth (Comment.parent)
RECURSIVE WithReplies(_)
WithReplies(S) ==
    LET more == S \cup {c.id : c \in {d \in comments : ~IsNone(d.parent) /\ Val(d.parent) \in S}}
    IN  IF more = S THEN S ELSE WithReplies(more)

\* a delete that takes the direct replies only
CommentsWithout_Shallow(S) ==
    {c \in comments : c.id \notin S /\ (IsNone(c.parent) \/ Val(c.parent) \notin S)}

\* Comment rows left after the comments in S are deleted
CommentsWithout(S) == {c \in comments : c.id \notin WithReplies(S)}

\* Comment rows left after the articles in A are deleted (Comment.article)
CommentsAfterArticles(A) == CommentsWithout({c.id : c \in {d \in comments : d.article \in A}})

\* Like / Bookmark rows left after the articles in A are deleted
ReactionsAfterArticles(table, A) == {r \in table : r.article \notin A}

(***************************************************************************)
(* Article.tags.set(...)                                                   *)
(***************************************************************************)
TruthyList(o) == ~IsNone(o) /\ Val(o) # <<>>

SeqRange(s) == {s[i] : i \in 1..Len(s)}

\* mutations.py: every tag id must carry the type tag "TagType"
m_TagIdsTyped(tag_ids) == \A g \in SeqRange(tag_ids) : from_global_id(g)[1] = "TagType"

\* mutations.py: Tag.objects.filter(id__in=tag_db_ids) runs on taggit.Tag
m_TagsFound(tag_ids) == {t \in taggit : t.id \in {from_global_id(g)[2] : g \in SeqRange(tag_ids)}}

\* article.tags.set(tags) takes news.Tag rows: a non-empty queryset of taggit.Tag
\* rows is refused with a TypeError, an empty one clears the tag set
m_TagsSettable(found) == found = {}

\* schema.py: Tag.objects.filter(id__in=tag_ids) runs on news.Tag
s_TagsFound(tag_ids) == {t.id : t \in {x \in tags : x.id \in SeqRange(tag_ids)}}

(***************************************************************************)
(* Article mutations of mutations.py.                                      *)
(***************************************************************************)
NewArticle(u, title, category, is_featured, status, published_at) ==
    [id |-> nextId.article, title |-> title, slug |-> <<>>, author |-> u,
     category |-> category, tags |-> {}, status |-> status,
     is_featured |-> is_featured, views_count |-> 0, published_at |-> published_at]

\* status="draft" is the keyword default of both CreateArticle.mutate
StatusArg(status) == IF IsNone(status) THEN "draft" ELSE Val(status)

\* the stamp CreateArticle passes to Article.objects.create
m_CreateStamp(status) == IF status = "published" THEN Some(now) ELSE None

\* roles that may create articles and tags
m_AuthorRoles == {"journalist", "editor"}

m_CreateArticleResult(u, title, category_id, tag_ids, is_featured, status) ==
    IF ~require_auth(u) THEN Fail("auth")
    ELSE IF ~require_role(u, m_AuthorRoles) THEN Fail("perm")
    ELSE LET g == from_global_id(category_id) IN
    IF g[1] # "CategoryType" THEN Fail("type")
    ELSE IF ByPk(categories, g[2]) = {} THEN Fail("not_found")
    ELSE LET article == ArticleSave(NewArticle(u, title, g[2], is_featured, StatusArg(status),
                                               m_CreateStamp(StatusArg(status)))) IN
    IF ArticleSlugTaken(article) THEN Fail("integrity")
    ELSE IF TruthyList(tag_ids)
         THEN IF ~m_TagIdsTyped(Val(tag_ids)) THEN atomic("type", article)
              ELSE IF ~m_TagsSettable(m_TagsFound(Val(tag_ids))) THEN atomic("crash", article)
              ELSE [err |-> "ok", val |-> Some(article.id), success |-> None, row |-> article]
         ELSE [err |-> "ok", val |-> Some(article.id), success |-> None, row |-> article]

\* who may update or delete an article
m_MayChangeArticle(u, article) == u = article.author \/ Role(u) = "editor"

\* the stamp UpdateArticle leaves on the row before it calls save
m_UpdateStamp(article, status) ==
    IF ~IsNone(status) /\ Val(status) = "published" THEN Some(now) ELSE article.published_at

m_UpdateArticleResult(u, id, title, category_id, tag_ids, is_featured, status) ==
    LET g == from_global_id(id) IN
    IF g[1] # "ArticleType" THEN Fail("type")
    ELSE IF ~require_auth(u) THEN Fail("auth")
    ELSE IF ByPk(articles, g[2]) = {} THEN Fail("not_found")
    ELSE LET article == Row(articles, g[2]) IN
    IF ~m_MayChangeArticle(u, article) THEN Fail("perm")
    ELSE LET c == IF IsNone(category_id) THEN <<"CategoryType", article.category>>
                  ELSE from_global_id(Val(category_id)) IN
    IF c[1] # "CategoryType" THEN Fail("type")
    ELSE IF ByPk(categories, c[2]) = {} THEN Fail("not_found")
    ELSE LET edited == [article EXCEPT
                 !.title = IF IsNone(title) THEN @ ELSE Val(title),
                 !.category = c[2],
                 !.status = IF IsNone(status) THEN @ ELSE Val(status),
                 !.published_at = m_UpdateStamp(article, status),
                 !.is_featured = IF IsNone(is_featured) THEN @ ELSE Val(is_featured)]
             saved == ArticleSave(edited) IN
    IF ArticleSlugTaken(saved) THEN Fail("integrity")
    ELSE IF ~IsNone(tag_ids)
         THEN IF ~m_TagIdsTyped(Val(tag_ids)) THEN atomic("type", saved)
              ELSE IF ~m_TagsSettable(m_TagsFound(Val(tag_ids))) THEN atomic("crash", saved)
              ELSE [err |-> "ok", val |-> Some(saved.id), success |-> None, row |-> [saved EXCEPT !.tags = {}]]
         ELSE [err |-> "ok", val |-> Some(saved.id), success |-> None, row |-> saved]

m_DeleteArticleResult(u, id) ==
    LET g == from_global_id(id) IN
    IF g[1] # "ArticleType" THEN Fail("type")
    ELSE IF ~require_auth(u) THEN Fail("auth")
    ELSE IF ByPk(articles, g[2]) = {} THEN Fail("not_found")
    ELSE IF ~m_MayChangeArticle(u, Row(articles, g[2])) THEN Fail("perm")
    ELSE [err |-> "ok", val |-> None, success |-> Some(TRUE), pk |-> g[2]]

(***************************************************************************)
(* Article mutations of schema.py.                                         *)
(***************************************************************************)
\* who may call UpdateArticle
s_MayUpdateArticle(u) == is_authenticated(u) /\ (is_journalist(u) \/ is_editor(u))

\* who may delete an article
s_MayDeleteArticle(u, article) ==
    is_authenticated(u) /\ ~(u # article.author /\ ~is_editor(u))

s_CreateArticleResult(u, title, category_id, tag_ids, is_featured, status) ==
    IF ~is_authenticated(u) THEN Fail("auth")
    ELSE IF ~(is_journalist(u) \/ is_editor(u)) THEN Fail("perm")
    ELSE IF ByPk(categories, category_id) = {} THEN Fail("not_found")
    ELSE LET article == ArticleSave(NewArticle(u, title, category_id, is_featured,
                                               StatusArg(status), None)) IN
    IF ArticleSlugTaken(article) THEN Fail("integrity")
    ELSE [err |-> "ok", val |-> Some(article.id), success |-> None,
          row |-> IF TruthyList(tag_ids)
                  THEN [article EXCEPT !.tags = s_TagsFound(Val(tag_ids))]
                  ELSE article]

\* is_featured=False is the keyword default: an absent argument arrives as False
s_FeaturedArg(is_featured) == IF IsNone(is_featured) THEN Some(FALSE) ELSE is_featured

s_UpdateArticleResult(u, id, title, category_id, tag_ids, is_featured, status) ==
    IF ~s_MayUpdateArticle(u) THEN Fail("perm")
    ELSE IF ByPk(articles, id) = {} THEN Fail("not_found")
    ELSE LET article == Row(articles, id)
             edited == [article EXCEPT
                 !.title = IF IsNone(title) THEN @ ELSE Val(title),
                 !.category = IF IsNone(category_id) THEN @ ELSE Val(category_id),
                 !.is_featured = Val(s_FeaturedArg(is_featured)),
                 !.status = IF IsNone(status) THEN @ ELSE Val(status)]
             saved == ArticleSave(edited) IN
    IF ByPk(categories, saved.category) = {} \/ ArticleSlugTaken(saved) THEN Fail("integrity")
    ELSE [err |-> "ok", val |-> Some(saved.id), success |-> None,
          row |-> IF ~IsNone(tag_ids)
                  THEN [saved EXCEPT !.tags = s_TagsFound(Val(tag_ids))]
                  ELSE saved]

s_DeleteArticleResult(u, id) ==
    IF ByPk(articles, id) = {} THEN Fail("not_found")
    ELSE IF ~s_MayDeleteArticle(u, Row(articles, id)) THEN Fail("perm")
    ELSE [err |-> "ok", val |-> None, success |-> Some(TRUE), pk |-> id]

(***************************************************************************)
(* The article actions: one facade call each.                              *)
(***************************************************************************)
Reply(op, fac, r) ==
    [op |-> op, fac |-> fac, err |-> r.err, val |-> r.val, success |-> r.success,
     before |-> None, found |-> {}]

\* no call answered yet
NoReply ==
    [op |-> "none", fac |-> "none", err |-> "ok", val |-> None, success |-> None,
     before |-> None, found |-> {}]

StoreArticle(op, fac, r, created) ==
    LET newArticles == IF "row" \in DOMAIN r THEN Replace(articles, r.row) ELSE articles IN
    /\ articles' = newArticles
    /\ everPublished' = TrackPublished(newArticles)
    /\ nextId' = IF r.err = "ok" /\ created
                 THEN [nextId EXCEPT !.article = @ + 1] ELSE nextId
    /\ resp' = Reply(op, fac, r)
    /\ UNCHANGED <<users, categories, tags, taggit, comments, likes, bookmarks, now, calls>>

RemoveArticle(op, fac, r) ==
    LET gone == IF r.err = "ok" THEN {r.pk} ELSE {}
        newArticles == {a \in articles : a.id \notin gone} IN
    /\ articles' = newArticles
    /\ everPublished' = TrackPublished(newArticles)
    /\ comments' = CommentsAfterArticles(gone)
    /\ likes' = ReactionsAfterArticles(likes, gone)
    /\ bookmarks' = ReactionsAfterArticles(bookmarks, gone)
    /\ resp' = Reply(op, fac, r)
    /\ UNCHANGED <<users, categories, tags, taggit, nextId, now, calls>>

m_CreateArticle(u, title, category_id, tag_ids, is_featured, status) ==
    /\ nextId.article <= MaxArticles
    /\ StoreArticle("create_article", "m",
           m_CreateArticleResult(u, title, category_id, tag_ids, is_featured, status), TRUE)

s_CreateArticle(u, title, category_id, tag_ids, is_featured, status) ==
    /\ nextId.article <= MaxArticles
    /\ StoreArticle("create_article", "s",
           s_CreateArticleResult(u, title, category_id, tag_ids, is_featured, status), TRUE)

m_UpdateArticle(u, id, title, category_id, tag_ids, is_featured, status) ==
    StoreArticle("update_article", "m",
        m_UpdateArticleResult(u, id, title, category_id, tag_ids, is_featured, status), FALSE)

s_UpdateArticle(u, id, title, category_id, tag_ids, is_featured, status) ==
    StoreArticle("update_article", "s",
        s_UpdateArticleResult(u, id, title, category_id, tag_ids, is_featured, status), FALSE)

m_DeleteArticle(u, id) == RemoveArticle("delete_article", "m", m_DeleteArticleResult(u, id))

s_DeleteArticle(u, id) == RemoveArticle("delete_article", "s", s_DeleteArticleResult(u, id))

\* time passes between requests
Tick ==
    /\ now < MaxClock
    /\ now' = now + 1
    /\ UNCHANGED <<users, categories, tags, taggit, articles, comments, likes, bookmarks,
                   nextId, resp, everPublished, calls>>


(***************************************************************************)
(* Tag mutations.                                                          *)
(***************************************************************************)
\* news.Tag.save, then the insert under unique=True on name and on slug
TagInsertable(name) == \A t \in tags : t.name # name /\ t.slug # TagSlug(name)

\* taggit.Tag: unique=True on name (taggit numbers a colliding slug itself)
TaggitInsertable(name) == \A t \in taggit : t.name # name

m_CreateTagResult(u, name) ==
    IF ~require_auth(u) THEN Fail("auth")
    ELSE IF ~require_role(u, m_AuthorRoles) THEN Fail("perm")
    ELSE IF ~TaggitInsertable(name) THEN Fail("integrity")
    ELSE [err |-> "ok", val |-> Some(nextId.taggit), success |-> None,
          row |-> [id |-> nextId.taggit, name |-> name]]

s_CreateTagResult(u, name) ==
    IF ~is_authenticated(u) \/ ~(is_journalist(u) \/ is_editor(u)) THEN Fail("perm")
    ELSE IF ~TagInsertable(name) THEN Fail("integrity")
    ELSE [err |-> "ok", val |-> Some(nextId.tag), success |-> None,
          row |-> [id |-> nextId.tag, name |-> name, slug |-> TagSlug(name)]]

m_CreateTag(u, name) ==
    LET r == m_CreateTagResult(u, name) IN
    /\ nextId.taggit <= MaxTags
    /\ taggit' = IF r.err = "ok" THEN taggit \cup {r.row} ELSE taggit
    /\ nextId' = IF r.err = "ok" THEN [nextId EXCEPT !.taggit = @ + 1] ELSE nextId
    /\ resp' = Reply("create_tag", "m", r)
    /\ UNCHANGED <<users, categories, tags, articles, comments, likes, bookmarks, now,
                   everPublished, calls>>

s_CreateTag(u, name) ==
    LET r == s_CreateTagResult(u, name) IN
    /\ nextId.tag <= MaxTags
    /\ tags' = IF r.err = "ok" THEN tags \cup {r.row} ELSE tags
    /\ nextId' = IF r.err = "ok" THEN [nextId EXCEPT !.tag = @ + 1] ELSE nextId
    /\ resp' = Reply("create_tag", "s", r)
    /\ UNCHANGED <<users, categories, taggit, articles, comments, likes, bookmarks, now,
                   everPublished, calls>>

(***************************************************************************)
(* Category mutations.                                                     *)
(***************************************************************************)
MaxCategories == 2      \* category primary keys handed out

\* Category.save: the slug is derived from the name when blank
CategorySave(c) == [c EXCEPT !.slug = IF c.slug = <<>> THEN slugify(c.name) ELSE c.slug]

\* unique=True on Category.name and Category.slug
CategoryWritable(c) ==
    \A d \in categories : d.id # c.id => (d.name # c.name /\ d.slug # c.slug)

\* the categories in S and their sub-categories at any depth (Category.parent)
RECURSIVE WithChildren(_)
WithChildren(S) ==
    LET more == S \cup {c.id : c \in {d \in categories : ~IsNone(d.parent) /\ Val(d.parent) \in S}}
    IN  IF more = S THEN S ELSE WithChildren(more)

\* the articles deleted with the categories in S (Article.category)
ArticlesOfCategories(S) == {a.id : a \in {b \in articles : b.category \in WithChildren(S)}}

m_CreateCategoryResult(u, name, parent_id) ==
    IF ~require_auth(u) THEN Fail("auth")
    ELSE IF ~require_role(u, {"editor"}) THEN Fail("perm")
    ELSE LET g == IF IsNone(parent_id) THEN <<"CategoryType", 0>>
                  ELSE from_global_id(Val(parent_id)) IN
    IF g[1] # "CategoryType" THEN Fail("type")
    ELSE IF ~IsNone(parent_id) /\ ByPk(categories, g[2]) = {} THEN Fail("not_found")
    ELSE LET category == CategorySave([id |-> nextId.category, name |-> name, slug |-> <<>>,
                                       description |-> None,
                                       parent |-> IF IsNone(parent_id) THEN None ELSE Some(g[2])]) IN
    IF ~CategoryWritable(category) THEN Fail("integrity")
    ELSE [err |-> "ok", val |-> Some(category.id), success |-> None, row |-> category]

m_UpdateCategoryResult(u, id, name, parent_id) ==
    IF ~require_auth(u) THEN Fail("auth")
    ELSE IF ~require_role(u, {"editor"}) THEN Fail("perm")
    ELSE LET g == from_global_id(id) IN
    IF g[1] # "CategoryType" THEN Fail("type")
    ELSE IF ByPk(categories, g[2]) = {} THEN Fail("not_found")
    ELSE LET category == Row(categories, g[2])
             p == IF IsNone(parent_id) THEN <<"CategoryType", 0>>
                  ELSE from_global_id(Val(parent_id)) IN
    IF p[1] # "CategoryType" THEN Fail("type")
    ELSE IF ~IsNone(parent_id) /\ ByPk(categories, p[2]) = {} THEN Fail("not_found")
    ELSE LET saved == CategorySave([category EXCEPT
                          !.name = IF IsNone(name) THEN @ ELSE Val(name),
                          !.parent = IF IsNone(parent_id) THEN @ ELSE Some(p[2])]) IN
    IF ~CategoryWritable(saved) THEN Fail("integrity")
    ELSE [err |-> "ok", val |-> Some(saved.id), success |-> None, row |-> saved]

m_DeleteCategoryResult(u, id) ==
    IF ~require_auth(u) THEN Fail("auth")
    ELSE IF ~require_role(u, {"editor"}) THEN Fail("perm")
    ELSE LET g == from_global_id(id) IN
    IF g[1] # "CategoryType" THEN Fail("type")
    ELSE IF ByPk(categories, g[2]) = {} THEN Fail("not_found")
    ELSE [err |-> "ok", val |-> None, success |-> Some(TRUE), gone |-> {g[2]}]

\* schema.py: the test that opens each category mutation
s_MayEditCategories_OrJournalist(u) == is_authenticated(u) /\ (is_editor(u) \/ is_journalist(u))

s_MayEditCategories(u) == is_authenticated(u) /\ is_editor(u)

s_CreateCategoryResult(u, name, parent_id) ==
    IF ~s_MayEditCategories(u) THEN Fail("perm")
    ELSE IF ~IsNone(parent_id) /\ ByPk(categories, Val(parent_id)) = {} THEN Fail("not_found")
    ELSE LET category == CategorySave([id |-> nextId.category, name |-> name, slug |-> <<>>,
                                       description |-> None, parent |-> parent_id]) IN
    IF ~CategoryWritable(category) THEN Fail("integrity")
    ELSE [err |-> "ok", val |-> Some(category.id), success |-> None, row |-> category]

s_UpdateCategoryResult(u, id, name, parent_id) ==
    IF ~s_MayEditCategories(u) THEN Fail("perm")
    ELSE IF ByPk(categories, id) = {} THEN Fail("not_found")
    ELSE IF ~IsNone(parent_id) /\ ByPk(categories, Val(parent_id)) = {} THEN Fail("not_found")
    ELSE LET category == Row(categories, id)
             saved == CategorySave([category EXCEPT
                          !.name = IF IsNone(name) THEN @ ELSE Val(name),
                          !.parent = parent_id]) IN
    IF ~CategoryWritable(saved) THEN Fail("integrity")
    ELSE [err |-> "ok", val |-> Some(saved.id), success |-> None, row |-> saved]

s_DeleteCategoryResult(u, id) ==
    IF ~s_MayEditCategories(u) THEN Fail("perm")
    ELSE IF ByPk(categories, id) = {} THEN [err |-> "ok", val |-> None, success |-> Some(FALSE), gone |-> {}]
    ELSE [err |-> "ok", val |-> None, success |-> Some(TRUE), gone |-> {id}]

StoreCategory(op, fac, r, created) ==
    /\ categories' = IF r.err = "ok" THEN Replace(categories, r.row) ELSE categories
    /\ nextId' = IF r.err = "ok" /\ created
                 THEN [nextId EXCEPT !.category = @ + 1] ELSE nextId
    /\ resp' = Reply(op, fac, r)
    /\ UNCHANGED <<users, tags, taggit, articles, comments, likes, bookmarks, now,
                   everPublished, calls>>

RemoveCategory(op, fac, r) ==
    LET gone == IF r.err = "ok" THEN WithChildren(r.gone) ELSE {}
        lost == IF r.err = "ok" THEN ArticlesOfCategories(r.gone) ELSE {}
        newArticles == {a \in articles : a.id \notin lost} IN
    /\ categories' = {c \in categories : c.id \notin gone}
    /\ articles' = newArticles
    /\ everPublished' = TrackPublished(newArticles)
    /\ comments' = CommentsAfterArticles(lost)
    /\ likes' = ReactionsAfterArticles(likes, lost)
    /\ bookmarks' = ReactionsAfterArticles(bookmarks, lost)
    /\ resp' = Reply(op, fac, r)
    /\ UNCHANGED <<users, tags, taggit, nextId, now, calls>>

m_CreateCategory(u, name, parent_id) ==
    /\ nextId.category <= MaxCategories
    /\ StoreCategory("create_category", "m", m_CreateCategoryResult(u, name, parent_id), TRUE)

s_CreateCategory(u, name, parent_id) ==
    /\ nextId.category <= MaxCategories
    /\ StoreCategory("create_category", "s", s_CreateCategoryResult(u, name, parent_id), TRUE)

m_UpdateCategory(u, id, name, parent_id) ==
    StoreCategory("update_category", "m", m_UpdateCategoryResult(u, id, name, parent_id), FALSE)

s_UpdateCategory(u, id, name, parent_id) ==
    StoreCategory("update_category", "s", s_UpdateCategoryResult(u, id, name, parent_id), FALSE)

m_DeleteCategory(u, id) == RemoveCategory("delete_category", "m", m_DeleteCategoryResult(u, id))

s_DeleteCategory(u, id) == RemoveCategory("delete_category", "s", s_DeleteCategoryResult(u, id))

(***************************************************************************)
(* Likes and bookmarks: Like.objects.get_or_create(article, user), then    *)
(* delete when the row was already there.                                  *)
(***************************************************************************)
MaxReactions == 2       \* like / bookmark primary keys handed out, per table

PairRows(table, a, u) == {r \in table : r.article = a /\ r.user = u}

\* a ForeignKey without its constraint in the database
foreign_key_Off(table, pk) == TRUE

\* models.ForeignKey: the database holds a row only while the row it names exists
foreign_key(table, pk) == ByPk(table, pk) # {}

\* unique_together = ("article", "user") switched off
unique_together_Off(table, a, u) == TRUE

\* unique_together = ("article", "user"): the insert of a row for (a, u) is accepted
unique_together(table, a, u) == PairRows(table, a, u) = {}

\* QuerySet.get_or_create run in one piece: get; on DoesNotExist create; on
\* IntegrityError get again
get_or_create(table, pk, a, u) ==
    LET found == PairRows(table, a, u)
        new == [id |-> pk, article |-> a, user |-> u, created_at |-> now] IN
    IF Cardinality(found) > 1 THEN [err |-> "crash"]
    ELSE IF found # {}
         THEN [err |-> "ok", created |-> FALSE, obj |-> CHOOSE r \in found : TRUE, table |-> table]
    ELSE IF unique_together(table, a, u)
         THEN [err |-> "ok", created |-> TRUE, obj |-> new, table |-> table \cup {new}]
    ELSE IF Cardinality(found) = 1
         THEN [err |-> "ok", created |-> FALSE, obj |-> CHOOSE r \in found : TRUE, table |-> table]
    ELSE [err |-> "integrity"]

\* a success flag that is always True
ToggleReport_Stale(created) == TRUE

\* the success flag returned: True when the row was created, False when removed
ToggleReport(created) == created

\* a delete() that leaves the row in place
DeleteRow_Keep(table, obj) == table

\* like.delete() / bookmark.delete()
DeleteRow(table, obj) == {r \in table : r.id # obj.id}

\* the body both LikeArticle.mutate and BookmarkArticle.mutate run on their table
Toggle(table, pk, a, u) ==
    LET g == get_or_create(table, pk, a, u) IN
    IF g.err # "ok" THEN [err |-> g.err, val |-> None, success |-> None, table |-> table]
    ELSE IF ~g.created
         THEN [err |-> "ok", val |-> None, success |-> Some(ToggleReport(g.created)),
               table |-> DeleteRow(g.table, g.obj)]
         ELSE [err |-> "ok", val |-> None, success |-> Some(ToggleReport(g.created)),
               table |-> g.table]

\* mutations.py: what precedes get_or_create in LikeArticle / BookmarkArticle
m_ReactionTarget(u, article_id) ==
    IF ~require_auth(u) THEN Fail("auth")
    ELSE LET g == from_global_id(article_id) IN
    IF g[1] # "ArticleType" THEN Fail("type")
    ELSE IF ByPk(articles, g[2]) = {} THEN Fail("not_found")
    ELSE [err |-> "ok", article |-> g[2]]

\* schema.py: what precedes get_or_create in LikeArticle / BookmarkArticle
s_ReactionTarget(u, article_id) ==
    IF ~is_authenticated(u) THEN Fail("auth")
    ELSE IF ByPk(articles, article_id) = {} THEN Fail("not_found")
    ELSE [err |-> "ok", article |-> article_id]

ReactionResult(target, table, pk, u) ==
    IF target.err # "ok" THEN [err |-> target.err, val |-> None, success |-> None, table |-> table]
    ELSE Toggle(table, pk, target.article, u)

Inserted(old, new) == \E r \in new : r \notin old

LikeCall(fac, target, u) ==
    LET r == ReactionResult(target, likes, nextId.like, u) IN
    /\ nextId.like <= MaxReactions
    /\ likes' = r.table
    /\ nextId' = IF Inserted(likes, r.table) THEN [nextId EXCEPT !.like = @ + 1] ELSE nextId
    /\ resp' = [Reply("like_article", fac, r) EXCEPT !.before = Some(likes)]
    /\ UNCHANGED <<users, categories, tags, taggit, articles, comments, bookmarks, now,
                   everPublished, calls>>

BookmarkCall(fac, target, u) ==
    LET r == ReactionResult(target, bookmarks, nextId.bookmark, u) IN
    /\ nextId.bookmark <= MaxReactions
    /\ bookmarks' = r.table
    /\ nextId' = IF Inserted(bookmarks, r.table)
                 THEN [nextId EXCEPT !.bookmark = @ + 1] ELSE nextId
    /\ resp' = [Reply("bookmark_article", fac, r) EXCEPT !.before = Some(bookmarks)]
    /\ UNCHANGED <<users, categories, tags, taggit, articles, comments, likes, now,
                   everPublished, calls>>

m_LikeArticle(u, article_id) == LikeCall("m", m_ReactionTarget(u, article_id), u)
s_LikeArticle(u, article_id) == LikeCall("s", s_ReactionTarget(u, article_id), u)
m_BookmarkArticle(u, article_id) == BookmarkCall("m", m_ReactionTarget(u, article_id), u)
s_BookmarkArticle(u, article_id) == BookmarkCall("s", s_ReactionTarget(u, article_id), u)

(***************************************************************************)
(* Comments.                                                               *)
(***************************************************************************)
MaxComments == 3        \* comment primary keys handed out

NewComment(u, article, parent) ==
    [id |-> nextId.comment, article |-> article, user |-> u, parent |-> parent,
     is_approved |-> TRUE]

\* the parent taken as given, without the lookup
ParentFound_Unchecked(pk) == TRUE

\* Comment.objects.get(pk=parent id) finds the parent
ParentFound(pk) == ByPk(comments, pk) # {}

m_AddCommentResult(u, article_id, parent_id) ==
    IF ~require_auth(u) THEN Fail("auth")
    ELSE LET g == from_global_id(article_id) IN
    IF g[1] # "ArticleType" THEN Fail("type")
    ELSE IF ByPk(articles, g[2]) = {} THEN Fail("not_found")
    ELSE LET p == IF IsNone(parent_id) THEN <<"CommentType", 0>>
                  ELSE from_global_id(Val(parent_id)) IN
    IF p[1] # "CommentType" THEN Fail("type")
    ELSE IF ~IsNone(parent_id) /\ ~ParentFound(p[2]) THEN Fail("not_found")
    ELSE [err |-> "ok", val |-> Some(nextId.comment), success |-> None,
          row |-> NewComment(u, g[2], IF IsNone(parent_id) THEN None ELSE Some(p[2]))]

s_CreateCommentResult(u, article_id, parent_id) ==
    IF ~is_authenticated(u) THEN Fail("auth")
    ELSE IF ByPk(articles, article_id) = {} THEN Fail("not_found")
    ELSE IF ~IsNone(parent_id) /\ ~ParentFound(Val(parent_id)) THEN Fail("not_found")
    ELSE [err |-> "ok", val |-> Some(nextId.comment), success |-> None,
          row |-> NewComment(u, article_id, parent_id)]

\* mutations.py: the caller may delete the comment
m_MayDeleteComment_Anyone(u, comment) == TRUE

m_MayDeleteComment(u, comment) == ~(comment.user # u /\ Role(u) # "editor")

\* schema.py: the caller may delete the comment (an authenticated caller)
s_MayDeleteComment(u, comment) == ~(u # comment.user /\ ~is_editor(u))

m_DeleteCommentResult(u, id) ==
    IF ~require_auth(u) THEN Fail("auth")
    ELSE LET g == from_global_id(id) IN
    IF g[1] # "CommentType" THEN Fail("type")
    ELSE IF ByPk(comments, g[2]) = {} THEN Fail("not_found")
    ELSE IF ~m_MayDeleteComment(u, Row(comments, g[2])) THEN Fail("perm")
    ELSE [err |-> "ok", val |-> None, success |-> Some(TRUE), pk |-> g[2]]

\* schema.py reads is_editor of info.context.user without testing is_authenticated:
\* the anonymous user has no such attribute, and the call ends in an AttributeError
s_DeleteCommentResult(u, id) ==
    IF ByPk(comments, id) = {} THEN Fail("not_found")
    ELSE IF ~is_authenticated(u) THEN Fail("crash")
    ELSE IF ~s_MayDeleteComment(u, Row(comments, id)) THEN Fail("perm")
    ELSE [err |-> "ok", val |-> None, success |-> Some(TRUE), pk |-> id]

StoreComment(op, fac, r) ==
    /\ nextId.comment <= MaxComments
    /\ comments' = IF r.err = "ok" THEN comments \cup {r.row} ELSE comments
    /\ nextId' = IF r.err = "ok" THEN [nextId EXCEPT !.comment = @ + 1] ELSE nextId
    /\ resp' = Reply(op, fac, r)
    /\ UNCHANGED <<users, categories, tags, taggit, articles, likes, bookmarks, now,
                   everPublished, calls>>

RemoveComment(op, fac, r) ==
    /\ comments' = IF r.err = "ok" THEN CommentsWithout({r.pk}) ELSE comments
    /\ resp' = Reply(op, fac, r)
    /\ UNCHANGED <<users, categories, tags, taggit, articles, likes, bookmarks, nextId, now,
                   everPublished, calls>>

m_AddComment(u, article_id, parent_id) ==
    StoreComment("add_comment", "m", m_AddCommentResult(u, article_id, parent_id))

s_CreateComment(u, article_id, parent_id) ==
    StoreComment("add_comment", "s", s_CreateCommentResult(u, article_id, parent_id))

m_DeleteComment(u, id) == RemoveComment("delete_comment", "m", m_DeleteCommentResult(u, id))

s_DeleteComment(u, id) == RemoveComment("delete_comment", "s", s_DeleteCommentResult(u, id))

(***************************************************************************)
(* UpdateProfile (mutations.py): the caller's own row, the fields given.   *)
(***************************************************************************)
m_UpdateProfileResult(u, bio) ==
    IF ~require_auth(u) THEN Fail("auth")
    ELSE [err |-> "ok", val |-> Some(u), success |-> None,
          row |-> [UserRow(u) EXCEPT !.bio = IF IsNone(bio) THEN @ ELSE Val(bio)]]

m_UpdateProfile(u, bio) ==
    LET r == m_UpdateProfileResult(u, bio) IN
    /\ users' = IF r.err = "ok" THEN Replace(users, r.row) ELSE users
    /\ resp' = Reply("update_profile", "m", r)
    /\ UNCHANGED <<categories, tags, taggit, articles, comments, likes, bookmarks, nextId, now,
                   everPublished, calls>>

(***************************************************************************)
(* Accounts: Signup of mutations.py and CreateUser of schema.py.           *)
(***************************************************************************)
MaxUsers == 6
MaxSignups == 2

\* AbstractUser.username is unique with the unique constraint switched off
username_unique_Off(username) == TRUE

\* User(AbstractUser): username is unique=True, the insert of a second row with
\* the username is refused; email carries no constraint
username_unique(username) == \A r \in users : r.username # username

UsernameExists(username) == \E r \in users : r.username = username
EmailExists(email) == \E r \in users : r.email = email

NewUser(username, email, role) ==
    [id |-> nextId.user, role |-> role, bio |-> <<>>, username |-> username, email |-> email]

m_SignupResult(username, email, role) ==
    IF UsernameExists(username) THEN Fail("username_taken")
    ELSE IF EmailExists(email) THEN Fail("email_taken")
    ELSE IF ~username_unique(username) THEN Fail("integrity")
    ELSE [err |-> "ok", val |-> Some(nextId.user), success |-> None,
          row |-> NewUser(username, email, role)]

\* role is not an argument of CreateUser: the row takes the default, reader
s_CreateUserResult(username, email) ==
    IF ~username_unique(username) THEN Fail("integrity")
    ELSE [err |-> "ok", val |-> Some(nextId.user), success |-> None,
          row |-> NewUser(username, email, "reader")]

StoreUser(op, fac, r) ==
    /\ nextId.user <= MaxUsers
    /\ users' = IF r.err = "ok" THEN users \cup {r.row} ELSE users
    /\ nextId' = IF r.err = "ok" THEN [nextId EXCEPT !.user = @ + 1] ELSE nextId
    /\ resp' = Reply(op, fac, r)
    /\ UNCHANGED <<categories, tags, taggit, articles, comments, likes, bookmarks, now,
                   everPublished, calls>>

m_Signup(username, email, role) == StoreUser("signup", "m", m_SignupResult(username, email, role))

s_CreateUser(username, email) == StoreUser("create_user", "s", s_CreateUserResult(username, email))

(***************************************************************************)
(* Signup one database statement at a time, as requests served side by     *)
(* side run it: the two exists() queries, then the INSERT of user.save().  *)
(***************************************************************************)
SignupReceive(username, email, role) ==
    /\ Len(calls) < MaxSignups
    /\ calls' = Append(calls, [op |-> "signup", username |-> username, email |-> email,
                               role |-> role, pc |-> "username", err |-> "ok"])
    /\ UNCHANGED <<users, categories, tags, taggit, articles, comments, likes, bookmarks,
                   nextId, now, resp, everPublished>>

SignupFinish(i, kind) == calls' = [calls EXCEPT ![i].pc = "done", ![i].err = kind]

SignupUsernameExists(i) ==
    /\ calls[i].pc = "username"
    /\ IF UsernameExists(calls[i].username) THEN SignupFinish(i, "username_taken")
       ELSE calls' = [calls EXCEPT ![i].pc = "email"]
    /\ UNCHANGED <<users, categories, tags, taggit, articles, comments, likes, bookmarks,
                   nextId, now, resp, everPublished>>

SignupEmailExists(i) ==
    /\ calls[i].pc = "email"
    /\ IF EmailExists(calls[i].email) THEN SignupFinish(i, "email_taken")
       ELSE calls' = [calls EXCEPT ![i].pc = "save"]
    /\ UNCHANGED <<users, categories, tags, taggit, articles, comments, likes, bookmarks,
                   nextId, now, resp, everPublished>>

SignupSave(i) ==
    LET c == calls[i]
        saved == username_unique(c.username) IN
    /\ c.pc = "save"
    /\ nextId.user <= MaxUsers
    /\ users' = IF saved THEN users \cup {NewUser(c.username, c.email, c.role)} ELSE users
    /\ nextId' = IF saved THEN [nextId EXCEPT !.user = @ + 1] ELSE nextId
    /\ SignupFinish(i, IF saved THEN "ok" ELSE "integrity")
    /\ UNCHANGED <<categories, tags, taggit, articles, comments, likes, bookmarks, now, resp,
                   everPublished>>

(***************************************************************************)
(* The like and bookmark handlers one database statement at a time, as     *)
(* requests served side by side run them.  calls holds a record per        *)
(* request: pc is the statement the request runs next.                     *)
(*   get     the SELECT of get_or_create                                   *)
(*   insert  the INSERT of get_or_create, refused by unique_together       *)
(*   reget   the SELECT get_or_create falls back to after IntegrityError   *)
(*   delete  like.delete() / bookmark.delete()                             *)
(*   done    the reply is out: err and success hold it                     *)
(***************************************************************************)
MaxCalls == 3           \* requests received in one run of SpecRace

Table(op) == IF op = "like_article" THEN likes ELSE bookmarks

Serial(op) == IF op = "like_article" THEN nextId.like ELSE nextId.bookmark

\* the request is received: everything the handler does before get_or_create
Receive(op, target, u) ==
    /\ Len(calls) < MaxCalls
    /\ calls' = Append(calls,
                       [op |-> op, user |-> u,
                        article |-> IF target.err = "ok" THEN target.article ELSE 0,
                        pc |-> IF target.err = "ok" THEN "get" ELSE "done",
                        obj |-> None, err |-> target.err, success |-> None])
    /\ UNCHANGED <<users, categories, tags, taggit, articles, comments, likes, bookmarks,
                   nextId, now, resp, everPublished>>

m_Receive(op, u, article_id) == Receive(op, m_ReactionTarget(u, article_id), u)

s_Receive(op, u, article_id) == Receive(op, s_ReactionTarget(u, article_id), u)

Goto(i, label) == calls' = [calls EXCEPT ![i].pc = label]

Finish(i, kind, flag) ==
    calls' = [calls EXCEPT ![i].pc = "done", ![i].err = kind, ![i].success = flag]

StepGet(i) ==
    LET c == calls[i]
        found == PairRows(Table(c.op), c.article, c.user) IN
    /\ c.pc = "get"
    /\ IF Cardinality(found) > 1 THEN Finish(i, "crash", None)
       ELSE IF found # {}
            THEN \E r \in found : calls' = [calls EXCEPT ![i].pc = "delete", ![i].obj = Some(r)]
       ELSE Goto(i, "insert")
    /\ UNCHANGED <<users, categories, tags, taggit, articles, comments, likes, bookmarks,
                   nextId, now, resp, everPublished>>

StepInsert(i) ==
    LET c == calls[i]
        new == [id |-> Serial(c.op), article |-> c.article, user |-> c.user,
                created_at |-> now]
        accepted == /\ unique_together(Table(c.op), c.article, c.user)
                    /\ foreign_key(articles, c.article) IN
    /\ c.pc = "insert"
    /\ IF accepted THEN Finish(i, "ok", Some(ToggleReport(TRUE))) ELSE Goto(i, "reget")
    /\ likes' = IF accepted /\ c.op = "like_article" THEN likes \cup {new} ELSE likes
    /\ bookmarks' = IF accepted /\ c.op = "bookmark_article"
                    THEN bookmarks \cup {new} ELSE bookmarks
    /\ nextId' = IF ~accepted THEN nextId
                 ELSE IF c.op = "like_article" THEN [nextId EXCEPT !.like = @ + 1]
                 ELSE [nextId EXCEPT !.bookmark = @ + 1]
    /\ UNCHANGED <<users, categories, tags, taggit, articles, comments, now, resp,
                   everPublished>>

StepReget(i) ==
    LET c == calls[i]
        found == PairRows(Table(c.op), c.article, c.user) IN
    /\ c.pc = "reget"
    /\ IF Cardinality(found) = 1
       THEN \E r \in found : calls' = [calls EXCEPT ![i].pc = "delete", ![i].obj = Some(r)]
       ELSE Finish(i, "integrity", None)
    /\ UNCHANGED <<users, categories, tags, taggit, articles, comments, likes, bookmarks,
                   nextId, now, resp, everPublished>>

StepDelete(i) ==
    LET c == calls[i] IN
    /\ c.pc = "delete"
    /\ Finish(i, "ok", Some(ToggleReport(FALSE)))
    /\ likes' = IF c.op = "like_article" THEN DeleteRow(likes, Val(c.obj)) ELSE likes
    /\ bookmarks' = IF c.op = "bookmark_article"
                    THEN DeleteRow(bookmarks, Val(c.obj)) ELSE bookmarks
    /\ UNCHANGED <<users, categories, tags, taggit, articles, comments, nextId, now, resp,
                   everPublished>>

(***************************************************************************)
(* CreateArticle and UpdateArticle of schema.py one database write at a    *)
(* time, as a reader served side by side sees them: article.save() writes  *)
(* the row, article.tags.set(tags) writes the tag set afterwards, and no   *)
(* transaction spans the two.  obj holds the row the call will have        *)
(* written when it returns.                                                *)
(***************************************************************************)
\* the call record of a request that has run article.save()
SavedCall(op, u, r, pending) ==
    [op |-> op, user |-> u, article |-> IF r.err = "ok" THEN r.row.id ELSE 0,
     pc |-> IF r.err = "ok" /\ pending THEN "tags" ELSE "done",
     obj |-> IF r.err = "ok" THEN Some(r.row) ELSE None, err |-> r.err, success |-> None]

\* article.save() of a request, the tag set of the row left as the table has it
SaveArticleRow(op, u, r, old_tags, pending, created) ==
    /\ Len(calls) < MaxCalls
    /\ calls' = Append(calls, SavedCall(op, u, r, pending))
    /\ articles' = IF r.err = "ok" THEN Replace(articles, [r.row EXCEPT !.tags = old_tags])
                   ELSE articles
    /\ everPublished' = TrackPublished(articles')
    /\ nextId' = IF r.err = "ok" /\ created THEN [nextId EXCEPT !.article = @ + 1] ELSE nextId
    /\ UNCHANGED <<users, categories, tags, taggit, comments, likes, bookmarks, now, resp>>

s_CreateArticleSave(u, title, category_id, tag_ids, is_featured, status) ==
    /\ nextId.article <= MaxArticles
    /\ SaveArticleRow("create_article", u,
                      s_CreateArticleResult(u, title, category_id, tag_ids, is_featured, status),
                      {}, TruthyList(tag_ids), TRUE)

s_UpdateArticleSave(u, id, title, category_id, tag_ids, is_featured, status) ==
    SaveArticleRow("update_article", u,
                   s_UpdateArticleResult(u, id, title, category_id, tag_ids, is_featured, status),
                   IF ByPk(articles, id) = {} THEN {} ELSE Row(articles, id).tags,
                   ~IsNone(tag_ids), FALSE)

\* article.tags.set(tags)
s_SetTags(i) ==
    LET c == calls[i] IN
    /\ c.pc = "tags"
    /\ ByPk(articles, c.article) # {}
    /\ articles' = Replace(articles,
                       [Row(articles, c.article) EXCEPT !.tags = Val(c.obj).tags])
    /\ calls' = [calls EXCEPT ![i].pc = "done"]
    /\ UNCHANGED <<users, categories, tags, taggit, comments, likes, bookmarks, nextId, now,
                   resp, everPublished>>

(***************************************************************************)
(* AddComment and DeleteArticle of mutations.py one transaction step at a  *)
(* time.  AddComment looks the article and the parent up, then inserts the *)
(* comment.  article.delete() collects the rows that cascade, then deletes *)
(* them and the article in one transaction, whose foreign keys are checked *)
(* when it commits: a row that came to name the article since the          *)
(* collection makes the commit fail and the delete is rolled back.         *)
(***************************************************************************)
AddCommentLookup(u, article_id, parent_id) ==
    LET r == m_AddCommentResult(u, article_id, parent_id) IN
    /\ Len(calls) < MaxCalls
    /\ calls' = Append(calls, [op |-> "add_comment", user |-> u,
                               article |-> IF r.err = "ok" THEN r.row.article ELSE 0,
                               pc |-> IF r.err = "ok" THEN "save" ELSE "done",
                               obj |-> IF r.err = "ok" THEN Some(r.row) ELSE None,
                               err |-> r.err, success |-> None])
    /\ UNCHANGED <<users, categories, tags, taggit, articles, comments, likes, bookmarks,
                   nextId, now, resp, everPublished>>

AddCommentSave(i) ==
    LET c == calls[i]
        row == [Val(c.obj) EXCEPT !.id = nextId.comment]
        accepted == /\ foreign_key(articles, row.article)
                    /\ (IsNone(row.parent) \/ foreign_key(comments, Val(row.parent))) IN
    /\ c.pc = "save"
    /\ nextId.comment <= MaxComments
    /\ comments' = IF accepted THEN comments \cup {row} ELSE comments
    /\ nextId' = IF accepted THEN [nextId EXCEPT !.comment = @ + 1] ELSE nextId
    /\ calls' = [calls EXCEPT ![i].pc = "done",
                              ![i].err = IF accepted THEN "ok" ELSE "integrity"]
    /\ UNCHANGED <<users, categories, tags, taggit, articles, likes, bookmarks, now, resp,
                   everPublished>>

\* the rows article.delete() collects: the comments of the article with their
\* replies, its likes and its bookmarks
Collected(pk) ==
    [comments |-> WithReplies({c.id : c \in {d \in comments : d.article = pk}}),
     likes |-> {r.id : r \in {x \in likes : x.article = pk}},
     bookmarks |-> {r.id : r \in {x \in bookmarks : x.article = pk}}]

DeleteArticleCollect(u, id) ==
    LET r == m_DeleteArticleResult(u, id) IN
    /\ Len(calls) < MaxCalls
    /\ calls' = Append(calls, [op |-> "delete_article", user |-> u,
                               article |-> IF r.err = "ok" THEN r.pk ELSE 0,
                               pc |-> IF r.err = "ok" THEN "commit" ELSE "done",
                               obj |-> IF r.err = "ok" THEN Some(Collected(r.pk)) ELSE None,
                               err |-> r.err, success |-> None])
    /\ UNCHANGED <<users, categories, tags, taggit, articles, comments, likes, bookmarks,
                   nextId, now, resp, everPublished>>

\* the foreign keys of the rows left, checked at commit
ConstraintsHold(arts, coms, lks, bms) ==
    /\ \A c \in coms : /\ foreign_key(arts, c.article)
                        /\ (IsNone(c.parent) \/ foreign_key(coms, Val(c.parent)))
    /\ \A r \in lks \cup bms : foreign_key(arts, r.article)

DeleteArticleCommit(i) ==
    LET c == calls[i]
        arts == {a \in articles : a.id # c.article}
        coms == {x \in comments : x.id \notin Val(c.obj).comments}
        lks == {x \in likes : x.id \notin Val(c.obj).likes}
        bms == {x \in bookmarks : x.id \notin Val(c.obj).bookmarks}
        committed == ConstraintsHold(arts, coms, lks, bms) IN
    /\ c.pc = "commit"
    /\ articles' = IF committed THEN arts ELSE articles
    /\ everPublished' = TrackPublished(articles')
    /\ comments' = IF committed THEN coms ELSE comments
    /\ likes' = IF committed THEN lks ELSE likes
    /\ bookmarks' = IF committed THEN bms ELSE bookmarks
    /\ calls' = [calls EXCEPT ![i].pc = "done",
                              ![i].err = IF committed THEN "ok" ELSE "integrity",
                              ![i].success = IF committed THEN Some(TRUE) ELSE None]
    /\ UNCHANGED <<users, categories, tags, taggit, nextId, now, resp>>

(***************************************************************************)
(* Article.increment_views.  The method runs on an Article instance its    *)
(* caller has loaded: calls holds the instance of each request (obj) from  *)
(* the load on; increment_views adds one to the loaded views_count and     *)
(* writes that number with save(update_fields=["views_count"]).            *)
(***************************************************************************)
\* the caller loads the instance: Article.objects.get(pk=pk)
LoadArticle(pk) ==
    /\ Len(calls) < MaxCalls
    /\ ByPk(articles, pk) # {}
    /\ calls' = Append(calls, [op |-> "increment_views", user |-> Anonymous, article |-> pk,
                               pc |-> "loaded", obj |-> Some(Row(articles, pk)),
                               err |-> "ok", success |-> None])
    /\ UNCHANGED <<users, categories, tags, taggit, articles, comments, likes, bookmarks,
                   nextId, now, resp, everPublished>>

\* self.views_count += 1: the number the instance was loaded with, plus one
increment_views_Value(stored, loaded) == loaded.views_count + 1

increment_views(i) ==
    LET c == calls[i]
        stored == Row(articles, c.article) IN
    /\ c.pc = "loaded"
    /\ ByPk(articles, c.article) # {}
    /\ articles' = Replace(articles,
                       [stored EXCEPT !.views_count = increment_views_Value(stored, Val(c.obj))])
    /\ calls' = [calls EXCEPT ![i].pc = "done"]
    /\ UNCHANGED <<users, categories, tags, taggit, comments, likes, bookmarks, nextId, now,
                   resp, everPublished>>

(***************************************************************************)
(* Article searches.  Articles carry a title only, so a search matches on  *)
(* the title; the result is the set of rows returned, its order left out.  *)
(***************************************************************************)
\* title__icontains: needle occurs in hay, letter case ignored
icontains(hay, needle) ==
    \E i \in 1..(Len(hay) + 1) :
        /\ i + Len(needle) - 1 <= Len(hay)
        /\ SubSeq(MapLower(hay), i, i + Len(needle) - 1) = MapLower(needle)

\* the words of a text as the search vector holds them: maximal runs of word
\* characters, lower-cased
RECURSIVE WordsFrom(_, _, _)
WordsFrom(s, i, word) ==
    IF i > Len(s) THEN (IF word = <<>> THEN {} ELSE {word})
    ELSE IF IsWordChar(Lower(s[i])) THEN WordsFrom(s, i + 1, Append(word, Lower(s[i])))
    ELSE (IF word = <<>> THEN {} ELSE {word}) \cup WordsFrom(s, i + 1, <<>>)

Words(s) == WordsFrom(s, 1, <<>>)

\* SearchQuery(term) against SearchVector("title", ...): every word of the term is a
\* word of the title (a term without words matches nothing)
FullTextMatch(term, title) == Words(term) # {} /\ Words(term) \subseteq Words(title)

\* .filter(status="published")
StatusPublished(a) == a.status = "published"

\* queries.py Query.resolve_search_articles
q_SearchArticles(query) == {a \in articles : icontains(a.title, query) /\ StatusPublished(a)}

\* schema.py Query.resolve_search_articles
s_SearchArticles(query) ==
    IF query = <<>> THEN {}
    ELSE {a \in articles : icontains(a.title, query) /\ StatusPublished(a)}

\* Article.search
ArticleSearch(query) ==
    IF query = <<>> THEN {}
    ELSE {a \in articles : FullTextMatch(query, a.title) /\ StatusPublished(a)}

\* search.py: rank >= 0.1, then the category filter when a slug is given
fulltext_search_articles(term, category_slug) ==
    LET ranked == {a \in articles : FullTextMatch(term, a.title)} IN
    IF IsNone(category_slug) \/ category_slug = Some(<<>>) THEN ranked
    ELSE {a \in ranked : \E c \in categories : c.id = a.category /\ c.slug = Val(category_slug)}

\* a query answered: nothing stored changes
Answer(op, fac, rows) ==
    /\ resp' = [NoReply EXCEPT !.op = op, !.fac = fac, !.found = {a.id : a \in rows}]
    /\ UNCHANGED <<users, categories, tags, taggit, articles, comments, likes, bookmarks,
                   nextId, now, everPublished, calls>>

q_ResolveSearchArticles(query) == Answer("search_articles", "q", q_SearchArticles(query))

s_ResolveSearchArticles(query) == Answer("search_articles", "s", s_SearchArticles(query))

ArticleSearchCall(query) == Answer("search_articles", "model", ArticleSearch(query))

FulltextSearchCall(term, category_slug) ==
    Answer("search_articles", "search", fulltext_search_articles(term, category_slug))

(***************************************************************************)
(* Article listings.  A listing answers with a set of rows; a listing with *)
(* a limit answers with the first rows in its order, any of them where the *)
(* order ties.                                                             *)
(***************************************************************************)
\* queries.py resolve_articles: status="published" is the keyword default, and
\* the status filter is applied when status is truthy
q_Articles(search, category_slug, status) ==
    LET st == IF IsNone(status) THEN "published" ELSE Val(status) IN
    {a \in articles :
        /\ IsNone(search) \/ Val(search) = <<>> \/ icontains(a.title, Val(search))
        /\ IsNone(category_slug) \/ Val(category_slug) = <<>>
               \/ \E c \in categories : c.id = a.category /\ c.slug = Val(category_slug)
        /\ st = "" \/ a.status = st}

\* schema.py articles = DjangoFilterConnectionField(ArticleType), no resolver: every
\* row of the model, filtered by the filter_fields given (status exact)
s_Articles(status) == {a \in articles : IsNone(status) \/ a.status = Val(status)}

\* resolve_featured_articles, the same in both modules
FeaturedArticles == {a \in articles : a.is_featured /\ StatusPublished(a)}

\* the first limit of rows in descending order of key: the sets [:limit] may give
FirstRows(rows, key(_), limit) ==
    {S \in SUBSET rows :
        /\ Cardinality(S) = IF limit < Cardinality(rows) THEN limit ELSE Cardinality(rows)
        /\ \A x \in S, y \in rows \ S : key(x) >= key(y)}

\* descending order puts rows without a stamp first
StampRank(a) == IF IsNone(a.published_at) THEN MaxClock + 1 ELSE Val(a.published_at)

ViewsRank(a) == a.views_count

\* resolve_recent_articles: .filter(status="published").order_by("-published_at")[:limit]
RecentArticles(limit) == FirstRows({a \in articles : StatusPublished(a)}, StampRank, limit)

\* resolve_popular_articles: .filter(status="published").order_by("-views_count")[:limit]
PopularArticles(limit) == FirstRows({a \in articles : StatusPublished(a)}, ViewsRank, limit)

\* schema.py resolve_articles_by_category: the category of the slug, [] when missing
s_ArticlesByCategory(category_slug) ==
    {a \in articles : /\ \E c \in categories : c.slug = category_slug /\ c.id = a.category
                      /\ StatusPublished(a)}

\* schema.py resolve_articles_by_tag: the tag of the slug, [] when missing
s_ArticlesByTag(tag_slug) ==
    {a \in articles : /\ \E t \in tags : t.slug = tag_slug /\ t.id \in a.tags
                      /\ StatusPublished(a)}

(***************************************************************************)
(* The by-id resolvers of queries.py.                                      *)
(***************************************************************************)
QueryReply(op, kind, rows) ==
    /\ resp' = [NoReply EXCEPT !.op = op, !.fac = "q", !.err = kind, !.found = rows]
    /\ UNCHANGED <<users, categories, tags, taggit, articles, comments, likes, bookmarks,
                   nextId, now, everPublished, calls>>

\* resolve_user, resolve_category, resolve_tag, resolve_article with an id: the type
\* tag is tested, then Model.objects.get(pk=db_id)
q_ResolveById(op, table, expected, id) ==
    LET g == from_global_id(id) IN
    IF g[1] # expected THEN QueryReply(op, "type", {})
    ELSE IF ByPk(table, g[2]) = {} THEN QueryReply(op, "not_found", {})
    ELSE QueryReply(op, "ok", {g[2]})

\* resolve_articles_by_category: [1] of the decoded id, whatever its type tag
q_ResolveArticlesByCategory(category_id) ==
    LET db_id == from_global_id(category_id)[2] IN
    QueryReply("articles_by_category", "ok",
               {a.id : a \in {b \in articles : b.category = db_id /\ StatusPublished(b)}})

\* resolve_articles_by_tag: [1] of the decoded id, whatever its type tag
q_ResolveArticlesByTag(tag_id) ==
    LET db_id == from_global_id(tag_id)[2] IN
    QueryReply("articles_by_tag", "ok",
               {a.id : a \in {b \in articles : db_id \in b.tags /\ StatusPublished(b)}})

\* resolve_comment: [1] of the decoded id, whatever its type tag
q_ResolveComment(id) ==
    LET db_id == from_global_id(id)[2] IN
    IF ByPk(comments, db_id) = {} THEN QueryReply("comment", "not_found", {})
    ELSE QueryReply("comment", "ok", {db_id})

\* resolve_comments_by_article filters article_id on the decoded (type, id) pair
\* itself: the lookup cannot turn it into a number and raises
q_ResolveCommentsByArticle(article_id) == QueryReply("comments_by_article", "crash", {})

(***************************************************************************)
(* Initial states.                                                         *)
(***************************************************************************)
InitNextId ==
    [article |-> 1, category |-> 1, tag |-> 1, taggit |-> 1, comment |-> 1,
     like |-> 1, bookmark |-> 1, user |-> 5]

\* a site holding the seeded users of every role and the given content
InitWith(cats, arts, coms, ids) ==
    /\ users = SeedUsers
    /\ categories = cats
    /\ tags = {}
    /\ taggit = {}
    /\ articles = arts
    /\ comments = coms
    /\ likes = {}
    /\ bookmarks = {}
    /\ nextId = ids
    /\ now = 1
    /\ resp = NoReply
    /\ everPublished = {a.id : a \in {b \in arts : b.status = "published"}}
    /\ calls = <<>>

CategoryRow(pk, name, parent) ==
    [id |-> pk, name |-> name, slug |-> slugify(name), description |-> None, parent |-> parent]

\* two top-level categories, as an editor creates them
SeedCategories == {CategoryRow(1, <<"a">>, None), CategoryRow(2, <<"b">>, None)}

(***************************************************************************)
(* Spec: access to articles.  Every kind of caller creates, updates and    *)
(* deletes articles through both facades; the categories are the seeded    *)
(* ones and the clock stands still.                                        *)
(***************************************************************************)
Statuses == {"draft", "published"}
StatusArgs == {None, Some("published")}

ArticleGids == {to_global_id("ArticleType", pk) : pk \in 1..MaxArticles}
                  \cup {to_global_id("CategoryType", 1)}

\* the patches an update request carries: <<title, category, status>>
m_Patches == {<<None, None, None>>, <<Some(TitleC), None, None>>,
              <<None, Some(to_global_id("CategoryType", 2)), None>>,
              <<None, None, Some("published")>>}
s_Patches == {<<None, None, None>>, <<Some(TitleC), None, None>>,
              <<None, Some(2), None>>, <<None, None, Some("published")>>}

Init == InitWith(SeedCategories, {}, {}, [InitNextId EXCEPT !.category = 3])

Next ==
    \/ \E u \in Callers, title \in {TitleA, TitleC} :
           m_CreateArticle(u, title, to_global_id("CategoryType", 1), None, FALSE, None)
    \/ \E u \in Callers, title \in {TitleA, TitleC} :
           s_CreateArticle(u, title, 1, None, FALSE, None)
    \/ \E u \in Callers, id \in ArticleGids, p \in m_Patches :
           m_UpdateArticle(u, id, p[1], p[2], None, None, p[3])
    \/ \E u \in Callers, id \in 1..MaxArticles, p \in s_Patches :
           s_UpdateArticle(u, id, p[1], p[2], None, None, p[3])
    \/ \E u \in Callers, id \in ArticleGids : m_DeleteArticle(u, id)
    \/ \E u \in Callers, id \in 1..MaxArticles : s_DeleteArticle(u, id)

Spec == Init /\ [][Next]_vars

(***************************************************************************)
(* C1.  updateArticle and deleteArticle are allowed if and only if the     *)
(* acting user is the article's author or has role editor; every other     *)
(* caller (a reader, a journalist who is not the author, the anonymous     *)
(* user) is denied and the article is left as it was.                      *)
(***************************************************************************)
Denied == {"auth", "perm"}

\* the rule of the claim: the caller is the author of the article, or an editor
AuthorOrEditor(u, a) == is_authenticated(u) /\ (u = a.author \/ Role(u) = "editor")

\* the step is a call of updateArticle or deleteArticle by u on the stored article pk
ChangesArticleCall(u, pk) ==
    \/ \E p \in m_Patches :
           m_UpdateArticle(u, to_global_id("ArticleType", pk), p[1], p[2], None, None, p[3])
    \/ \E p \in s_Patches : s_UpdateArticle(u, pk, p[1], p[2], None, None, p[3])
    \/ m_DeleteArticle(u, to_global_id("ArticleType", pk))
    \/ s_DeleteArticle(u, pk)

\* C1: an updateArticle or deleteArticle call on a stored article is let through
\* iff the caller is its author or an editor; for every other caller the call is
\* denied and the article row is left as it was.
C1_OnlyAuthorOrEditorChangesArticle ==
    [][\A u \in Callers : \A a \in articles :
          ChangesArticleCall(u, a.id) =>
              /\ AuthorOrEditor(u, a) <=> resp'.err \notin Denied
              /\ ~AuthorOrEditor(u, a) => a \in articles']_vars


(***************************************************************************)
(* SpecPublish: the publishing life cycle.  A journalist and an editor     *)
(* create articles as draft or published, change status and title, and     *)
(* delete, through both facades, while the clock advances.                 *)
(***************************************************************************)
PublishCallers == {2, 4}

\* <<title, status>> of an update request
PublishPatches == {<<None, None>>, <<Some(TitleC), None>>,
                   <<None, Some("draft")>>, <<None, Some("published")>>}

NextPublish ==
    \/ \E u \in PublishCallers, title \in {TitleA, TitleC}, st \in StatusArgs :
           m_CreateArticle(u, title, to_global_id("CategoryType", 1), None, FALSE, st)
    \/ \E u \in PublishCallers, title \in {TitleA, TitleC}, st \in StatusArgs :
           s_CreateArticle(u, title, 1, None, FALSE, st)
    \/ \E u \in PublishCallers, pk \in 1..MaxArticles, p \in PublishPatches :
           m_UpdateArticle(u, to_global_id("ArticleType", pk), p[1], None, None, None, p[2])
    \/ \E u \in PublishCallers, pk \in 1..MaxArticles, p \in PublishPatches :
           s_UpdateArticle(u, pk, p[1], None, None, None, p[2])
    \/ \E pk \in 1..MaxArticles : m_DeleteArticle(4, to_global_id("ArticleType", pk))
    \/ \E pk \in 1..MaxArticles : s_DeleteArticle(4, pk)
    \/ Tick

SpecPublish == Init /\ [][NextPublish]_vars

(***************************************************************************)
(* SpecCreate: who may create.  A reader, a journalist, an editor and the  *)
(* anonymous user create articles and tags through both facades, with      *)
(* titles whose slugs collide, category ids that exist, are missing or     *)
(* carry the wrong type tag, and tag id lists.                             *)
(***************************************************************************)
CreateCallers == {Anonymous, 1, 2, 4}

\* the requests tried: <<title, category id, tag ids>>
m_CreateRequests ==
    { <<TitleA, to_global_id("CategoryType", 1), None>>,
      <<TitleB, to_global_id("CategoryType", 1), None>>,
      <<TitleC, to_global_id("CategoryType", 1), None>>,
      <<TitleC, to_global_id("CategoryType", 3), None>>,
      <<TitleC, to_global_id("ArticleType", 1), None>>,
      <<TitleC, to_global_id("CategoryType", 2), Some(<<to_global_id("TagType", 1)>>)>>,
      <<TitleC, to_global_id("CategoryType", 2), Some(<<to_global_id("ArticleType", 1)>>)>> }
s_CreateRequests ==
    { <<TitleA, 1, None>>, <<TitleB, 1, None>>, <<TitleC, 1, None>>, <<TitleC, 3, None>>,
      <<TitleC, 2, Some(<<1>>)>> }

NextCreate ==
    \/ \E u \in CreateCallers, q \in m_CreateRequests :
           m_CreateArticle(u, q[1], q[2], q[3], FALSE, None)
    \/ \E u \in CreateCallers, q \in s_CreateRequests :
           s_CreateArticle(u, q[1], q[2], q[3], FALSE, None)
    \/ \E u \in CreateCallers, name \in TagNames : m_CreateTag(u, name)
    \/ \E u \in CreateCallers, name \in TagNames : s_CreateTag(u, name)

SpecCreate == Init /\ [][NextCreate]_vars


(***************************************************************************)
(* SpecTaxonomy: the category tree.  A reader, a journalist, an editor and *)
(* the anonymous user create, update and delete categories through both    *)
(* facades, starting from no category.                                     *)
(***************************************************************************)
TaxonomyCallers == {Anonymous, 1, 2, 4}

CatGid(pk) == to_global_id("CategoryType", pk)

\* <<name, parent id>> of a create request
m_CategoryCreates ==
    { <<<<"A">>, None>>, <<<<"a">>, None>>, <<<<"b">>, Some(CatGid(1))>>,
      <<<<"b">>, Some(CatGid(3))>>, <<<<"b">>, Some(to_global_id("ArticleType", 1))>> }
s_CategoryCreates ==
    { <<<<"A">>, None>>, <<<<"a">>, None>>, <<<<"b">>, Some(1)>>, <<<<"b">>, Some(3)>> }

\* <<name, parent id>> of an update request
m_CategoryPatches ==
    { <<None, None>>, <<Some(<<"b">>), None>>, <<None, Some(CatGid(1))>>,
      <<None, Some(CatGid(2))>> }
s_CategoryPatches ==
    { <<None, None>>, <<Some(<<"b">>), None>>, <<None, Some(1)>>, <<None, Some(2)>> }

m_CategoryTargets == {CatGid(pk) : pk \in 1..MaxCategories} \cup {to_global_id("ArticleType", 1)}
s_CategoryTargets == 1..MaxCategories

InitTaxonomy == InitWith({}, {}, {}, InitNextId)

NextTaxonomy ==
    \/ \E u \in TaxonomyCallers, q \in m_CategoryCreates : m_CreateCategory(u, q[1], q[2])
    \/ \E u \in TaxonomyCallers, q \in s_CategoryCreates : s_CreateCategory(u, q[1], q[2])
    \/ \E u \in TaxonomyCallers, id \in m_CategoryTargets, q \in m_CategoryPatches :
           m_UpdateCategory(u, id, q[1], q[2])
    \/ \E u \in TaxonomyCallers, id \in s_CategoryTargets, q \in s_CategoryPatches :
           s_UpdateCategory(u, id, q[1], q[2])
    \/ \E u \in TaxonomyCallers, id \in m_CategoryTargets : m_DeleteCategory(u, id)
    \/ \E u \in TaxonomyCallers, id \in s_CategoryTargets : s_DeleteCategory(u, id)

SpecTaxonomy == InitTaxonomy /\ [][NextTaxonomy]_vars

(***************************************************************************)
(* SpecEngage: readers' engagement with one published article.  A reader,  *)
(* a journalist, an editor and the anonymous user like, bookmark, comment, *)
(* reply and delete comments through both facades.                         *)
(***************************************************************************)
EngageCallers == {Anonymous, 1, 2, 4}

\* article 1, written and published by journalist 3
SeedArticle ==
    [id |-> 1, title |-> TitleA, slug |-> slugify(TitleA), author |-> 3, category |-> 1,
     tags |-> {}, status |-> "published", is_featured |-> FALSE, views_count |-> 0,
     published_at |-> Some(1)]

ArtGid(pk) == to_global_id("ArticleType", pk)
ComGid(pk) == to_global_id("CommentType", pk)

\* article ids of the requests: stored, missing, wrongly typed
m_ArticleTargets == {ArtGid(1), ArtGid(2), CatGid(1)}
s_ArticleTargets == {1, 2}

\* <<article id, parent id>> of a comment request
m_CommentRequests ==
    { <<ArtGid(1), None>>, <<ArtGid(1), Some(ComGid(1))>>, <<ArtGid(2), None>>,
      <<ArtGid(1), Some(ArtGid(1))>> }
s_CommentRequests == { <<1, None>>, <<1, Some(1)>>, <<2, None>> }

m_CommentTargets == {ComGid(pk) : pk \in 1..MaxComments} \cup {ArtGid(1)}
s_CommentTargets == 1..MaxComments

Bios == {None, Some(<<"b">>)}

InitEngage ==
    InitWith(SeedCategories, {SeedArticle}, {},
             [InitNextId EXCEPT !.category = 3, !.article = 2])

MaxEngagement == 3      \* likes, bookmarks and comments written in one run of SpecEngage

EngagementLeft == nextId.like + nextId.bookmark + nextId.comment < 3 + MaxEngagement

NextEngage ==
    \/ \E u \in EngageCallers, a \in m_ArticleTargets : EngagementLeft /\ m_LikeArticle(u, a)
    \/ \E u \in EngageCallers, a \in s_ArticleTargets : EngagementLeft /\ s_LikeArticle(u, a)
    \/ \E u \in EngageCallers, a \in m_ArticleTargets :
           EngagementLeft /\ m_BookmarkArticle(u, a)
    \/ \E u \in EngageCallers, a \in s_ArticleTargets :
           EngagementLeft /\ s_BookmarkArticle(u, a)
    \/ \E u \in EngageCallers, q \in m_CommentRequests :
           EngagementLeft /\ m_AddComment(u, q[1], q[2])
    \/ \E u \in EngageCallers, q \in s_CommentRequests :
           EngagementLeft /\ s_CreateComment(u, q[1], q[2])
    \/ \E u \in EngageCallers, bio \in Bios : EngagementLeft /\ m_UpdateProfile(u, bio)

SpecEngage == InitEngage /\ [][NextEngage]_vars

(***************************************************************************)
(* SpecReact: likes and bookmarks alone, one call after the other.         *)
(***************************************************************************)
NextReact ==
    \/ \E u \in EngageCallers, a \in m_ArticleTargets : m_LikeArticle(u, a)
    \/ \E u \in EngageCallers, a \in s_ArticleTargets : s_LikeArticle(u, a)
    \/ \E u \in EngageCallers, a \in m_ArticleTargets : m_BookmarkArticle(u, a)
    \/ \E u \in EngageCallers, a \in s_ArticleTargets : s_BookmarkArticle(u, a)

SpecReact == InitEngage /\ [][NextReact]_vars

(***************************************************************************)
(* SpecComment: comment threads under the article, written and deleted.    *)
(***************************************************************************)
NextComment ==
    \/ \E u \in EngageCallers, q \in m_CommentRequests : m_AddComment(u, q[1], q[2])
    \/ \E u \in EngageCallers, q \in s_CommentRequests : s_CreateComment(u, q[1], q[2])
    \/ \E u \in EngageCallers, id \in m_CommentTargets : m_DeleteComment(u, id)
    \/ \E u \in EngageCallers, id \in s_CommentTargets : s_DeleteComment(u, id)

SpecComment == InitEngage /\ [][NextComment]_vars

(***************************************************************************)
(* SpecRace: like and bookmark requests of two users on the article,       *)
(* served side by side: their statements interleave in every order.        *)
(***************************************************************************)
RaceCallers == {1, 2}

ReactionOps == {"like_article", "bookmark_article"}

NextRace ==
    \/ \E op \in ReactionOps, u \in RaceCallers : m_Receive(op, u, ArtGid(1))
    \/ \E op \in ReactionOps, u \in RaceCallers : s_Receive(op, u, 1)
    \/ \E i \in 1..Len(calls) : StepGet(i)
    \/ \E i \in 1..Len(calls) : StepInsert(i)
    \/ \E i \in 1..Len(calls) : StepReget(i)
    \/ \E i \in 1..Len(calls) : StepDelete(i)

SpecRace == InitEngage /\ [][NextRace]_vars

(***************************************************************************)
(* SpecThread: comment threads under two published articles.  A reader     *)
(* comments and replies, the reader and an editor delete comments, the     *)
(* editor deletes articles; both facades.                                  *)
(***************************************************************************)
\* article 2, written and published by journalist 2
SecondArticle ==
    [SeedArticle EXCEPT !.id = 2, !.title = TitleC, !.slug = slugify(TitleC), !.author = 2]

InitThread ==
    InitWith(SeedCategories, {SeedArticle, SecondArticle}, {},
             [InitNextId EXCEPT !.category = 3, !.article = 3])

ThreadArticles == {1, 2}

\* <<article id, parent id>> of a comment request: top-level, or a reply to any comment
m_ThreadRequests ==
    {<<ArtGid(a), p>> : a \in ThreadArticles,
                        p \in {None} \cup {Some(ComGid(k)) : k \in 1..MaxComments}}
s_ThreadRequests ==
    {<<a, p>> : a \in ThreadArticles, p \in {None} \cup {Some(k) : k \in 1..MaxComments}}

ThreadCallers == {1, 4}

NextThread ==
    \/ \E q \in m_ThreadRequests : m_AddComment(1, q[1], q[2])
    \/ \E q \in s_ThreadRequests : s_CreateComment(1, q[1], q[2])
    \/ \E u \in ThreadCallers, k \in 1..MaxComments : m_DeleteComment(u, ComGid(k))
    \/ \E u \in ThreadCallers, k \in 1..MaxComments : s_DeleteComment(u, k)
    \/ \E a \in ThreadArticles : m_DeleteArticle(4, ArtGid(a))
    \/ \E a \in ThreadArticles : s_DeleteArticle(4, a)

SpecThread == InitThread /\ [][NextThread]_vars

(***************************************************************************)
(* SpecCascade: two articles gather comments, likes and bookmarks, and the *)
(* editor deletes articles.                                                *)
(***************************************************************************)
CascadeCallers == {1, 2}

NextCascade ==
    \/ \E q \in m_ThreadRequests : EngagementLeft /\ m_AddComment(1, q[1], q[2])
    \/ \E q \in s_ThreadRequests : EngagementLeft /\ s_CreateComment(1, q[1], q[2])
    \/ \E u \in CascadeCallers, a \in ThreadArticles :
           EngagementLeft /\ m_LikeArticle(u, ArtGid(a))
    \/ \E u \in CascadeCallers, a \in ThreadArticles : EngagementLeft /\ s_LikeArticle(u, a)
    \/ \E u \in CascadeCallers, a \in ThreadArticles :
           EngagementLeft /\ m_BookmarkArticle(u, ArtGid(a))
    \/ \E u \in CascadeCallers, a \in ThreadArticles :
           EngagementLeft /\ s_BookmarkArticle(u, a)
    \/ \E a \in ThreadArticles : m_DeleteArticle(4, ArtGid(a))
    \/ \E a \in ThreadArticles : s_DeleteArticle(4, a)

SpecCascade == InitThread /\ [][NextCascade]_vars

(***************************************************************************)
(* SpecSearch: a journalist writes drafts and published articles and       *)
(* publishes drafts; anyone searches.                                      *)
(***************************************************************************)
SearchTerms == {<<>>, <<"b">>, <<"B">>, <<"a">>, <<"a", " ", "b">>}

SlugFilters == {None, Some(<<"a">>), Some(<<"b">>)}

NextSearch ==
    \/ \E t \in {TitleA, TitleC}, c \in 1..2, st \in StatusArgs :
           m_CreateArticle(2, t, CatGid(c), None, FALSE, st)
    \/ \E a \in 1..MaxArticles : s_UpdateArticle(2, a, None, None, None, None, Some("published"))
    \/ \E query \in SearchTerms : q_ResolveSearchArticles(query)
    \/ \E query \in SearchTerms : s_ResolveSearchArticles(query)
    \/ \E query \in SearchTerms : ArticleSearchCall(query)
    \/ \E term \in SearchTerms, slug \in SlugFilters : FulltextSearchCall(term, slug)

SpecSearch == Init /\ [][NextSearch]_vars

(***************************************************************************)
(* SpecIds: an editor, whom every permission check lets through, sends     *)
(* mutations and by-id queries with identifiers of every type tag.         *)
(***************************************************************************)
TypeTags == {"ArticleType", "CategoryType", "CommentType", "TagType", "UserType"}

AnyGids == {to_global_id(t, pk) : t \in TypeTags, pk \in 1..2}

NextIds ==
    \/ \E id \in AnyGids : EngagementLeft /\ m_LikeArticle(4, id)
    \/ \E id \in AnyGids : EngagementLeft /\ m_BookmarkArticle(4, id)
    \/ \E id \in AnyGids, p \in {None} \cup {Some(g) : g \in AnyGids} :
           EngagementLeft /\ m_AddComment(4, id, p)
    \/ \E id \in AnyGids : m_DeleteComment(4, id)
    \/ \E id \in AnyGids : m_DeleteArticle(4, id)
    \/ \E id \in AnyGids : m_DeleteCategory(4, id)
    \/ \E id \in AnyGids : q_ResolveById("article", articles, "ArticleType", id)
    \/ \E id \in AnyGids : q_ResolveById("category", categories, "CategoryType", id)
    \/ \E id \in AnyGids : q_ResolveById("tag", tags, "TagType", id)
    \/ \E id \in AnyGids : q_ResolveById("user", users, "UserType", id)
    \/ \E id \in AnyGids : q_ResolveArticlesByCategory(id)
    \/ \E id \in AnyGids : q_ResolveArticlesByTag(id)
    \/ \E id \in AnyGids : q_ResolveComment(id)
    \/ \E id \in AnyGids : q_ResolveCommentsByArticle(id)

SpecIds == InitThread /\ [][NextIds]_vars

(***************************************************************************)
(* C3.  createArticle and createTag succeed if and only if the acting      *)
(* user's role is journalist or editor: a reader or an unauthenticated     *)
(* caller is denied and no article or tag row is created, and a call by a  *)
(* journalist or editor with an existing category succeeds.                *)
(***************************************************************************)
\* the rule of the claim
JournalistOrEditor(u) == is_authenticated(u) /\ Role(u) \in {"journalist", "editor"}

m_NamesCategory(c) == c[1] = "CategoryType" /\ c[3] \in Ids(categories)
s_NamesCategory(c) == c \in Ids(categories)

SlugUnused(title) == \A a \in articles : a.slug # slugify(title)

\* the tag id list is absent, or every id is typed as a tag and names no stored row
m_TagListHarmless(t) ==
    IsNone(t) \/ \A g \in SeqRange(Val(t)) : g[1] = "TagType" /\ g[3] \notin Ids(taggit)

CreatedDraftBy(u, title) ==
    \E a \in articles' \ articles : a.author = u /\ a.title = title /\ a.status = "draft"

IsReply(r, op, fac) == r.op = op /\ r.fac = fac

Editor(u) == is_authenticated(u) /\ Role(u) = "editor"

\* the step is a category mutation called by u
CategoryCall(u) ==
    \/ \E q \in m_CategoryCreates : m_CreateCategory(u, q[1], q[2])
    \/ \E q \in s_CategoryCreates : s_CreateCategory(u, q[1], q[2])
    \/ \E id \in m_CategoryTargets, q \in m_CategoryPatches : m_UpdateCategory(u, id, q[1], q[2])
    \/ \E id \in s_CategoryTargets, q \in s_CategoryPatches : s_UpdateCategory(u, id, q[1], q[2])
    \/ \E id \in m_CategoryTargets : m_DeleteCategory(u, id)
    \/ \E id \in s_CategoryTargets : s_DeleteCategory(u, id)

\* C4: a category mutation is let through iff the caller is an editor; for any
\* other caller it is denied and the categories are unchanged.
C4_OnlyEditorChangesCategories ==
    [][\A u \in TaxonomyCallers :
          CategoryCall(u) =>
              /\ Editor(u) <=> resp'.err \notin Denied
              /\ ~Editor(u) => categories' = categories]_vars

\* a category mutation was denied while a category with a sub-category is stored
C4_Witness ==
    /\ resp.op \in {"create_category", "update_category", "delete_category"}
    /\ resp.err \in Denied
    /\ \E c \in categories : ~IsNone(c.parent)

(***************************************************************************)
(* C9.  Once an article's published_at is set, no later operation changes  *)
(* or clears it: not an update that sets status to "published" again, not  *)
(* an update that leaves status alone.                                     *)
(***************************************************************************)
\* C9: an article whose published_at is set keeps that value in every step.
C9_PublishedAtNeverChanges ==
    [][\A a \in articles : \A b \in articles' :
          (b.id = a.id /\ ~IsNone(a.published_at)) => b.published_at = a.published_at]_vars

(***************************************************************************)
(* C10.  In every reachable state, an article's published_at is set if and *)
(* only if its status has been "published" at some point of its history;   *)
(* an article created as draft and never published has none.               *)
(***************************************************************************)
\* C10: published_at is set iff the article was saved with status "published" at
\* some point.
C10_StampedIffEverPublished ==
    \A a \in articles : ~IsNone(a.published_at) <=> a.id \in everPublished

\* an article that was published and went back to draft, next to one never published
C10_Witness ==
    /\ \E a \in articles : a.status = "draft" /\ a.id \in everPublished /\ ~IsNone(a.published_at)
    /\ \E a \in articles : a.id \notin everPublished /\ IsNone(a.published_at)

(***************************************************************************)
(* C2.  deleteComment: the comment's author or an editor, nobody else.     *)
(***************************************************************************)
\* the rule of the claim: the caller wrote the comment, or is an editor
CommentAuthorOrEditor(u, c) == is_authenticated(u) /\ (u = c.user \/ Role(u) = "editor")

\* the step is a call of deleteComment by u on the stored comment pk
DeletesCommentCall(u, pk) == m_DeleteComment(u, ComGid(pk)) \/ s_DeleteComment(u, pk)

\* C2: a deleteComment call on a stored comment succeeds iff the caller is the
\* comment's author or an editor, and then the comment and its replies are gone;
\* an authenticated caller who is neither gets a permission error and every
\* comment, the target and its replies included, is still stored.
C2_OnlyAuthorOrEditorDeletesComment ==
    [][resp'.op = "delete_comment" =>
         \A u \in EngageCallers : \A c \in comments :
             DeletesCommentCall(u, c.id) =>
                 /\ CommentAuthorOrEditor(u, c) <=> resp'.err = "ok"
                 /\ resp'.err = "ok" =>
                        /\ comments' \subseteq comments
                        /\ \A d \in comments' : d.id # c.id /\ d.parent # Some(c.id)
                 /\ (is_authenticated(u) /\ ~CommentAuthorOrEditor(u, c)) =>
                        (resp'.err = "perm" /\ comments' = comments)]_vars

\* a journalist was refused the deletion of a reader's comment that has a reply
C2_Witness ==
    /\ resp.op = "delete_comment"
    /\ resp.err = "perm"
    /\ \E c \in comments : \E d \in comments :
           c.user = 1 /\ d.parent = Some(c.id) /\ d.user = 2

(***************************************************************************)
(* C5.  Likes, bookmarks, comments and the profile: authentication alone.  *)
(***************************************************************************)
StoredArticle(pk) == ByPk(articles, pk) # {}

\* the step is a like or a bookmark request of u on the stored article pk
ReactsCall(u, pk) ==
    \/ m_LikeArticle(u, ArtGid(pk))
    \/ s_LikeArticle(u, pk)
    \/ m_BookmarkArticle(u, ArtGid(pk))
    \/ s_BookmarkArticle(u, pk)

\* the step is a comment of u on a stored article, top-level or a reply to a stored comment
CommentsCall(u) ==
    \/ \E q \in m_CommentRequests :
           /\ from_global_id(q[1])[1] = "ArticleType" /\ StoredArticle(from_global_id(q[1])[2])
           /\ \/ IsNone(q[2])
              \/ /\ ~IsNone(q[2])
                 /\ from_global_id(Val(q[2]))[1] = "CommentType"
                 /\ ByPk(comments, from_global_id(Val(q[2]))[2]) # {}
           /\ m_AddComment(u, q[1], q[2])
    \/ \E q \in s_CommentRequests :
           /\ StoredArticle(q[1])
           /\ IsNone(q[2]) \/ (~IsNone(q[2]) /\ ByPk(comments, Val(q[2])) # {})
           /\ s_CreateComment(u, q[1], q[2])

\* the step is any request of u to the four operations, whatever it names
EngagesCall(u) ==
    \/ \E a \in m_ArticleTargets : m_LikeArticle(u, a) \/ m_BookmarkArticle(u, a)
    \/ \E a \in s_ArticleTargets : s_LikeArticle(u, a) \/ s_BookmarkArticle(u, a)
    \/ \E q \in m_CommentRequests : m_AddComment(u, q[1], q[2])
    \/ \E q \in s_CommentRequests : s_CreateComment(u, q[1], q[2])
    \/ \E bio \in Bios : m_UpdateProfile(u, bio)

\* C5: a request to likeArticle, bookmarkArticle, addComment or updateProfile that
\* names a stored article (and, for a reply, a stored parent comment) succeeds iff
\* the caller is authenticated, whatever the role; an unauthenticated caller gets
\* an authentication error and the Like, Bookmark, Comment and User rows are as
\* they were.
C5_AuthenticationAloneDecidesEngagement ==
    [][\A u \in EngageCallers :
         /\ ((\E pk \in Ids(articles) : ReactsCall(u, pk))
                \/ CommentsCall(u)
                \/ (\E bio \in Bios : m_UpdateProfile(u, bio)))
              => (is_authenticated(u) <=> resp'.err = "ok")
         /\ (~is_authenticated(u) /\ EngagesCall(u)) =>
                /\ resp'.err = "auth"
                /\ UNCHANGED <<likes, bookmarks, comments, users>>]_vars

\* the anonymous user was just turned away while a reader's like, a journalist's
\* bookmark or an editor's comment is stored
C5_Witness ==
    /\ resp.err = "auth"
    /\ \E r \in likes : Role(r.user) = "reader"
    /\ \/ \E r \in bookmarks : Role(r.user) = "journalist"
       \/ \E c \in comments : Role(c.user) = "editor"

(***************************************************************************)
(* C6.  One Like and one Bookmark per (article, user).                     *)
(***************************************************************************)
AtMostOnePerPair(table) ==
    \A r \in table : Cardinality(PairRows(table, r.article, r.user)) <= 1

\* C6: whatever like and bookmark requests were served, one after the other or
\* side by side, the same user on the same article included, every (article,
\* user) pair has at most one Like row and at most one Bookmark row.
C6_AtMostOneLikeAndBookmarkPerPair == AtMostOnePerPair(likes) /\ AtMostOnePerPair(bookmarks)

\* two requests of one user for the same operation both found no row; the insert
\* of one went through and the insert of the other was refused
C6_Witness ==
    \E i \in 1..Len(calls) : \E j \in 1..Len(calls) :
        /\ i # j
        /\ calls[i].op = calls[j].op
        /\ calls[i].user = calls[j].user
        /\ calls[i].pc = "done" /\ calls[i].success = Some(TRUE)
        /\ calls[j].pc = "reget"
        /\ PairRows(Table(calls[i].op), 1, calls[i].user) # {}

(***************************************************************************)
(* C7, C8.  The like and the bookmark toggles.                             *)
(***************************************************************************)
Has(table, a, u) == PairRows(table, a, u) # {}

OtherPairs(table, a, u) == table \ PairRows(table, a, u)

\* the effect the claim gives a toggle of (a, u): table before, table after, reply
Flips(before, after, reply, a, u) ==
    /\ reply.err = "ok"
    /\ Has(after, a, u) = ~Has(before, a, u)
    /\ reply.success = Some(Has(after, a, u))
    /\ OtherPairs(after, a, u) = OtherPairs(before, a, u)

\* C7: one likeArticle call of an authenticated user on a stored article removes
\* the user's Like row when there is one and reports false, creates it when there
\* is none and reports true: the reported value is whether the row exists after
\* the call.  bookmarkArticle does the same on Bookmark rows, and neither touches
\* the other table.
C7_ToggleFlipsAndReports ==
    [][\A u \in EngageCallers \ {Anonymous} : \A a \in Ids(articles) :
         /\ (m_LikeArticle(u, ArtGid(a)) \/ s_LikeArticle(u, a)) =>
                (Flips(likes, likes', resp', a, u) /\ bookmarks' = bookmarks)
         /\ (m_BookmarkArticle(u, ArtGid(a)) \/ s_BookmarkArticle(u, a)) =>
                (Flips(bookmarks, bookmarks', resp', a, u) /\ likes' = likes)]_vars

\* a like was just taken back while a bookmark stays
C7_Witness ==
    /\ resp.op = "like_article"
    /\ resp.success = Some(FALSE)
    /\ likes = {}
    /\ bookmarks # {}

Pairs(table) == {<<r.article, r.user>> : r \in table}

\* the call before this one was a toggle, on this table, of the pair (a, u)
JustToggled(op, table, a, u) ==
    /\ resp.op = op
    /\ resp.err = "ok"
    /\ Has(Val(resp.before), a, u) # Has(table, a, u)

\* what the claim says of the second of two toggles of (a, u) in a row
Restores(table, after, reply, a, u) ==
    /\ Pairs(after) = Pairs(Val(resp.before))
    /\ OtherPairs(after, a, u) = OtherPairs(Val(resp.before), a, u)
    /\ ~Has(Val(resp.before), a, u) =>
           /\ resp.success = Some(TRUE)
           /\ reply.success = Some(FALSE)
           /\ PairRows(after, a, u) = {}

DeletedArticle(pk) ==
    /\ resp'.op = "delete_article"
    /\ resp'.err = "ok"
    /\ pk \in Ids(articles) \ Ids(articles')

OfOtherArticles(table, pk) == {r \in table : r.article # pk}

\* C11: after a successful deleteArticle(X) no Comment, Like or Bookmark of X is
\* stored, no stored comment is a reply to a comment that is gone, and the
\* Comment, Like and Bookmark rows of the other articles are the same as before.
C11_DeleteArticleCascadesExactly ==
    [][\A pk \in Ids(articles) :
         DeletedArticle(pk) =>
             /\ \A r \in comments' \cup likes' \cup bookmarks' : r.article # pk
             /\ \A c \in comments' : ~IsNone(c.parent) => Val(c.parent) \in Ids(comments')
             /\ OfOtherArticles(comments', pk) = OfOtherArticles(comments, pk)
             /\ OfOtherArticles(likes', pk) = OfOtherArticles(likes, pk)
             /\ OfOtherArticles(bookmarks', pk) = OfOtherArticles(bookmarks, pk)]_vars

(***************************************************************************)
(* C12.  deleteComment takes the whole thread below the comment, and only  *)
(* that.                                                                   *)
(***************************************************************************)
\* c is the comment pk or a reply below it, at most n levels down
RECURSIVE DescendsFrom(_, _, _)
DescendsFrom(c, pk, n) ==
    \/ c.id = pk
    \/ /\ n > 0
       /\ ~IsNone(c.parent)
       /\ \E d \in comments : d.id = Val(c.parent) /\ DescendsFrom(d, pk, n - 1)

\* C12: a successful deleteComment(C) leaves exactly the comments that are neither
\* C nor a reply below C at any depth.
C12_DeleteCommentTakesThread ==
    [][(resp'.op = "delete_comment" /\ resp'.err = "ok") =>
         \A u \in ThreadCallers : \A k \in Ids(comments) :
             (m_DeleteComment(u, ComGid(k)) \/ s_DeleteComment(u, k)) =>
                 comments' = {c \in comments : ~DescendsFrom(c, k, MaxComments)}]_vars

\* three comments were written and a deleteComment has just left one of them
C12_Witness ==
    /\ resp.op = "delete_comment"
    /\ resp.err = "ok"
    /\ nextId.comment = 4
    /\ Cardinality(comments) = 1

(***************************************************************************)
(* C13.  A reply and its parent are comments of one article.               *)
(***************************************************************************)
\* C13: every stored comment that has a parent belongs to the article its parent
\* belongs to (addComment with a parent of another article does not succeed).
C13_ReplyOnParentsArticle ==
    \A c \in comments : \A d \in comments :
        (~IsNone(c.parent) /\ d.id = Val(c.parent)) => d.article = c.article

(***************************************************************************)
(* C14.  Searches return published articles only.                          *)
(***************************************************************************)
\* C14: every article an article search returns (the searchArticles resolvers,
\* Article.search, fulltext_search_articles), for any term and category filter,
\* has status "published".
C14_SearchReturnsPublishedOnly ==
    resp.op = "search_articles" =>
        \A a \in articles : a.id \in resp.found => a.status = "published"

(***************************************************************************)
(* C15.  An identifier of the wrong type is answered "Invalid ID type".    *)
(***************************************************************************)
\* the step is an operation that expects an article id, sent id by the editor
TakesArticleId(id) ==
    \/ m_LikeArticle(4, id)
    \/ m_BookmarkArticle(4, id)
    \/ m_DeleteArticle(4, id)
    \/ \E p \in {None} \cup {Some(g) : g \in AnyGids} : m_AddComment(4, id, p)
    \/ q_ResolveById("article", articles, "ArticleType", id)
    \/ q_ResolveCommentsByArticle(id)

\* the step is an operation that expects a comment id, sent id by the editor
TakesCommentId(id) ==
    \/ m_DeleteComment(4, id)
    \/ \E a \in Ids(articles) : m_AddComment(4, ArtGid(a), Some(id))
    \/ q_ResolveComment(id)

\* the step is an operation that expects a category id, sent id by the editor
TakesCategoryId(id) ==
    \/ m_DeleteCategory(4, id)
    \/ q_ResolveById("category", categories, "CategoryType", id)
    \/ q_ResolveArticlesByCategory(id)

\* the step is an operation that expects a tag or a user id
TakesTagId(id) == q_ResolveById("tag", tags, "TagType", id) \/ q_ResolveArticlesByTag(id)

TakesUserId(id) == q_ResolveById("user", users, "UserType", id)

\* C15: a mutation or a by-id query that is sent an identifier whose type tag is
\* not the expected one answers with the type-mismatch error: not with not-found,
\* not with a result looked up under the embedded number.
C15_WrongTypeTagRejected ==
    [][\A id \in AnyGids :
         /\ (id[1] # "ArticleType" /\ TakesArticleId(id)) => resp'.err = "type"
         /\ (id[1] # "CommentType" /\ TakesCommentId(id)) => resp'.err = "type"
         /\ (id[1] # "CategoryType" /\ TakesCategoryId(id)) => resp'.err = "type"
         /\ (id[1] # "TagType" /\ TakesTagId(id)) => resp'.err = "type"
         /\ (id[1] # "UserType" /\ TakesUserId(id)) => resp'.err = "type"]_vars

(***************************************************************************)
(* C16.  Authentication is checked first, then authorization, then the     *)
(* entities named, then the rest.                                          *)
(***************************************************************************)
\* the step is a createArticle call of u
CreatesArticleCall(u) ==
    \E title \in {TitleA, TitleC} :
        \/ m_CreateArticle(u, title, to_global_id("CategoryType", 1), None, FALSE, None)
        \/ s_CreateArticle(u, title, 1, None, FALSE, None)

\* the step is an updateArticle or deleteArticle call of u, whatever id it carries
TargetsArticleCall(u) ==
    \/ \E id \in ArticleGids, p \in m_Patches :
           m_UpdateArticle(u, id, p[1], p[2], None, None, p[3])
    \/ \E id \in 1..MaxArticles, p \in s_Patches :
           s_UpdateArticle(u, id, p[1], p[2], None, None, p[3])
    \/ \E id \in ArticleGids : m_DeleteArticle(u, id)
    \/ \E id \in 1..MaxArticles : s_DeleteArticle(u, id)

\* C16: the first failing check, in the order authentication, authorization,
\* existence, decides the error: an unauthenticated caller gets the authentication
\* error whatever identifier the request carries (stored, missing or of the wrong
\* type), and a reader calling createArticle gets the permission error.
C16_EarliestCheckDecides ==
    [][/\ (CreatesArticleCall(Anonymous) \/ TargetsArticleCall(Anonymous)) =>
              resp'.err = "auth"
       /\ CreatesArticleCall(1) => resp'.err = "perm"]_vars

(***************************************************************************)
(* SpecAtomic: failing article mutations.  The anonymous user, a reader,   *)
(* the journalist who writes the articles and a second journalist create,  *)
(* update and delete articles through both facades; the requests carry     *)
(* tag ids of the right type, of the wrong type, and none.                 *)
(***************************************************************************)
AtomicCallers == {Anonymous, 1, 2, 3}

TagGid(pk) == to_global_id("TagType", pk)

\* the tag id lists of mutations.py requests: absent, a tag, an article id
m_TagIdLists == {None, Some(<<TagGid(1)>>), Some(<<ArtGid(1)>>)}

\* <<category id, tag ids>> of a create request
m_AtomicCreates ==
    {<<CatGid(1), t>> : t \in m_TagIdLists} \cup {<<CatGid(3), None>>, <<ArtGid(1), None>>}

\* <<title, tag ids>> of an update request
m_AtomicUpdates == {None, Some(TitleC)} \X m_TagIdLists

NextAtomic ==
    \/ \E u \in AtomicCallers, q \in m_AtomicCreates :
           m_CreateArticle(u, TitleA, q[1], q[2], FALSE, None)
    \/ \E u \in AtomicCallers, c \in {1, 3} :
           s_CreateArticle(u, TitleB, c, None, FALSE, None)
    \/ \E u \in AtomicCallers, pk \in 1..MaxArticles, q \in m_AtomicUpdates :
           m_UpdateArticle(u, ArtGid(pk), q[1], None, q[2], None, None)
    \/ \E u \in AtomicCallers, pk \in 1..MaxArticles, title \in {None, Some(TitleC)} :
           s_UpdateArticle(u, pk, title, None, None, None, None)
    \/ \E u \in AtomicCallers, pk \in 1..MaxArticles : m_DeleteArticle(u, ArtGid(pk))
    \/ \E u \in AtomicCallers, pk \in 1..MaxArticles : s_DeleteArticle(u, pk)
    \/ \E u \in AtomicCallers, name \in TagNames : m_CreateTag(u, name)

SpecAtomic == Init /\ [][NextAtomic]_vars

(***************************************************************************)
(* C17.  A mutation that answers with an error leaves the stored rows as   *)
(* they were.                                                              *)
(***************************************************************************)
\* the errors the claim names
RejectionErrors == {"auth", "perm", "not_found", "type"}

C18_PublishedNeverReverts ==
    [][\A a \in articles, b \in articles' :
           (a.id = b.id /\ a.status = "published") => b.status = "published"]_vars

(***************************************************************************)
(* SpecSignup: new accounts.  Visitors sign up through Signup, served      *)
(* whole or side by side, and through CreateUser, with two usernames and   *)
(* two emails.                                                             *)
(***************************************************************************)
SignupNames == {"ann", "bob"}
SignupEmails == {"ann@x", "bob@x"}

NextSignup ==
    \/ \E n \in SignupNames, e \in SignupEmails : m_Signup(n, e, "reader")
    \/ \E n \in SignupNames, e \in SignupEmails : s_CreateUser(n, e)
    \/ \E n \in SignupNames, e \in SignupEmails : SignupReceive(n, e, "reader")
    \/ \E i \in 1..MaxSignups : i <= Len(calls) /\ SignupUsernameExists(i)
    \/ \E i \in 1..MaxSignups : i <= Len(calls) /\ SignupEmailExists(i)
    \/ \E i \in 1..MaxSignups : i <= Len(calls) /\ SignupSave(i)

SpecSignup == Init /\ [][NextSignup]_vars

(***************************************************************************)
(* C19.  Usernames and emails are unique.                                  *)
(***************************************************************************)
\* C19: in every reachable state no two users have the same username and no two
\* users have the same email, whatever signup and createUser requests ran, one
\* after the other or side by side.
C19_UsernameAndEmailUnique ==
    \A u \in users, v \in users :
        u.id # v.id => (u.username # v.username /\ u.email # v.email)

(***************************************************************************)
(* C20.  Two toggles of one user on one article, served side by side.      *)
(***************************************************************************)
\* the requests among cs that toggle the table, user and article of request i
SamePair(cs, i) ==
    {j \in 1..Len(cs) : /\ cs[j].op = cs[i].op /\ cs[j].user = cs[i].user
                        /\ cs[j].article = cs[i].article}

\* requests i and j are the only two on their pair; both found no row, j has
\* inserted its row and answered, i is about to run the statement at label
RacedPair(i, j, label) ==
    /\ i # j /\ SamePair(calls, i) = {i, j}
    /\ calls[i].pc = label
    /\ calls[j].pc = "done" /\ calls[j].success = Some(TRUE)

\* C20: when two like (or bookmark) requests of one user for one article are
\* served side by side and both find no row, the INSERT of the second is refused
\* by the uniqueness of (article, user) and adds no row; get_or_create catches the
\* refusal and hands the handler the stored row as one that already existed, so
\* the request goes on as a toggle of an existing row; neither request answers
\* with an error.
C20_RacingTogglesAbsorbed ==
    [][\A i \in 1..Len(calls), j \in 1..Len(calls) :
           /\ (RacedPair(i, j, "insert") /\ StepInsert(i)) =>
                  (calls'[i].pc = "reget" /\ UNCHANGED <<likes, bookmarks>>)
           /\ (RacedPair(i, j, "reget") /\ StepReget(i)) =>
                  /\ calls'[i].pc = "delete"
                  /\ Val(calls'[i].obj) \in PairRows(Table(calls[i].op), calls[i].article,
                                                     calls[i].user)
           /\ (Len(calls') = Len(calls) /\ SamePair(calls', i) = {i, j}) =>
                  (calls'[i].err = "ok" /\ calls'[j].err = "ok")]_vars

\* both requests found no row, the first has inserted and answered, and the
\* second has had its INSERT refused
C20_Witness == \E i \in 1..Len(calls), j \in 1..Len(calls) : RacedPair(i, j, "reget")

(***************************************************************************)
(* SpecViews: the view counter of the seeded article.  Up to MaxCalls      *)
(* requests load the article and count a view, their loads and writes in   *)
(* every order, while its author and an editor update the article.         *)
(***************************************************************************)
ViewPatches == {<<Some(TitleC), None>>, <<None, Some("draft")>>}

NextViews ==
    \/ LoadArticle(1)
    \/ \E i \in 1..Len(calls) : increment_views(i)
    \/ \E u \in {3, 4}, p \in ViewPatches :
           m_UpdateArticle(u, ArtGid(1), p[1], None, None, None, p[2])
    \/ \E u \in {3, 4}, p \in ViewPatches :
           s_UpdateArticle(u, 1, p[1], None, None, None, p[2])

SpecViews == InitEngage /\ [][NextViews]_vars

(***************************************************************************)
(* C21.  No view is lost.                                                  *)
(***************************************************************************)
\* the increment_views calls on article pk that have written
ViewsCounted(pk) ==
    {i \in 1..Len(calls) : /\ calls[i].op = "increment_views" /\ calls[i].article = pk
                           /\ calls[i].pc = "done"}

\* C21: when N increment_views calls on one article have run, in whatever order
\* their steps interleave, views_count is exactly N higher than it started (it
\* starts at 0): no increment is lost.
C21_NoViewLost ==
    \A a \in articles : a.views_count = Cardinality(ViewsCounted(a.id))

(***************************************************************************)
(* C22.  views_count never decreases.                                      *)
(***************************************************************************)
\* C22: in every step of increment_views and updateArticle, in any interleaving,
\* the views_count of an article after the step is at least its value before.
C22_ViewsNeverDecrease ==
    [][\A a \in articles, b \in articles' :
           a.id = b.id => b.views_count >= a.views_count]_vars

(***************************************************************************)
(* SpecTags: articles with tags through schema.py.  Journalist 2 creates   *)
(* tags, creates articles carrying a tag and replaces the tag set of       *)
(* articles, each call running its two writes as separate steps.           *)
(***************************************************************************)
s_TagIdLists == {None, Some(<<>>), Some(<<1>>), Some(<<2>>)}

NextTags ==
    \/ \E name \in TagNames : s_CreateTag(2, name)
    \/ \E title \in {TitleA, TitleC}, t \in s_TagIdLists :
           s_CreateArticleSave(2, title, 1, t, FALSE, None)
    \/ \E pk \in 1..MaxArticles, t \in s_TagIdLists :
           s_UpdateArticleSave(2, pk, Some(TitleB), None, t, None, None)
    \/ \E i \in 1..Len(calls) : s_SetTags(i)

SpecTags == Init /\ [][NextTags]_vars

(***************************************************************************)
(* C23.  Row and tag set are written as one.                               *)
(***************************************************************************)
\* the create and update calls that have saved the row of the article of call i
WritersOf(i) ==
    {j \in 1..Len(calls) : calls[j].article = calls[i].article /\ calls[j].err = "ok"}

\* C23: createArticle and updateArticle take effect as one step: in no state a
\* reader can see does the row a call has saved (the call being the only one that
\* wrote the article) stand with a tag set other than the one the call leaves.
C23_RowAndTagsTogether ==
    \A i \in 1..Len(calls) :
        (calls[i].err = "ok" /\ WritersOf(i) = {i} /\ ByPk(articles, calls[i].article) # {}) =>
            Row(articles, calls[i].article).tags = Val(calls[i].obj).tags

(***************************************************************************)
(* C24.  An update changes the fields supplied and no other.               *)
(***************************************************************************)
\* the row pk keeps its name when no name is supplied and its parent when no
\* parent is supplied
KeepsAbsentFields(pk, name, parent_id) ==
    \A c \in ByPk(categories, pk), d \in ByPk(categories', pk) :
        /\ IsNone(name) => d.name = c.name
        /\ IsNone(parent_id) => d.parent = c.parent

\* C24: updates have partial-update semantics: an updateCategory that succeeds
\* leaves name and parent of the category as they were when the request does
\* not supply them (as updateArticle leaves the fields it is not given).
C24_AbsentFieldsUntouched ==
    [][/\ \A u \in TaxonomyCallers, pk \in 1..MaxCategories, q \in m_CategoryPatches :
              m_UpdateCategory(u, CatGid(pk), q[1], q[2]) => KeepsAbsentFields(pk, q[1], q[2])
       /\ \A u \in TaxonomyCallers, pk \in s_CategoryTargets, q \in s_CategoryPatches :
              s_UpdateCategory(u, pk, q[1], q[2]) => KeepsAbsentFields(pk, q[1], q[2])]_vars

(***************************************************************************)
(* C25.  The category tree has no cycle.                                   *)
(***************************************************************************)
\* following parent links from category cur reaches category pk within fuel links
RECURSIVE ParentChainReaches(_, _, _)
ParentChainReaches(cur, pk, fuel) ==
    /\ fuel > 0
    /\ \E c \in ByPk(categories, cur) :
           /\ ~IsNone(c.parent)
           /\ (Val(c.parent) = pk \/ ParentChainReaches(Val(c.parent), pk, fuel - 1))

\* C25: in every reachable state the parent relation of categories is acyclic:
\* following parent links from a category never comes back to it, and no
\* category is its own parent.
C25_CategoryParentsAcyclic ==
    \A c \in categories : ~ParentChainReaches(c.id, c.id, Cardinality(categories))

(***************************************************************************)
(* SpecSlug: titles and slugs.  Journalist 2 creates articles and changes  *)
(* their titles through both facades; one of the titles has no letter or   *)
(* digit, so that slugify leaves nothing of it.                            *)
(***************************************************************************)
TitleDash == <<"-">>

SlugTitles == {TitleA, TitleC, TitleDash}

NextSlug ==
    \/ \E title \in SlugTitles : m_CreateArticle(2, title, CatGid(1), None, FALSE, None)
    \/ \E title \in SlugTitles : s_CreateArticle(2, title, 1, None, FALSE, None)
    \/ \E pk \in 1..MaxArticles, title \in SlugTitles, st \in StatusArgs :
           m_UpdateArticle(2, ArtGid(pk), Some(title), None, None, None, st)
    \/ \E pk \in 1..MaxArticles, title \in SlugTitles, st \in StatusArgs :
           s_UpdateArticle(2, pk, Some(title), None, None, None, st)

SpecSlug == Init /\ [][NextSlug]_vars

(***************************************************************************)
(* C26.  The slug is derived once.                                         *)
(***************************************************************************)
\* C26: the slug an article got from its title at its first save is never changed
\* by a later updateArticle, even one that changes the title, and no two articles
\* have the same slug.
C26_SlugDerivedOnce ==
    [][/\ \A a \in articles, b \in articles' : a.id = b.id => b.slug = a.slug
       /\ \A a \in articles', b \in articles' : a.id # b.id => a.slug # b.slug]_vars

(***************************************************************************)
(* SpecSignupRole: what a signed-up account may do.  Visitors sign up      *)
(* through Signup, naming any role, and the accounts they get call the     *)
(* mutations reserved to journalists, editors and authors; no seeded user  *)
(* acts.                                                                   *)
(***************************************************************************)
SignupRoles == {"reader", "journalist", "editor"}

\* the accounts created by signup
SignedUp == Ids(users) \ UserIds

NextSignupRole ==
    \/ \E n \in SignupNames, role \in SignupRoles : m_Signup(n, n, role)
    \/ \E u \in SignedUp, pk \in 1..MaxCategories :
           m_UpdateCategory(u, CatGid(pk), Some(<<"c">>), None)
    \/ \E u \in SignedUp, pk \in 1..MaxCategories : m_DeleteCategory(u, CatGid(pk))
    \/ \E u \in SignedUp : m_CreateArticle(u, TitleC, CatGid(1), None, FALSE, None)
    \/ \E u \in SignedUp, name \in TagNames : m_CreateTag(u, name)
    \/ \E u \in SignedUp : m_UpdateArticle(u, ArtGid(1), Some(TitleB), None, None, None, None)
    \/ \E u \in SignedUp : m_DeleteArticle(u, ArtGid(1))

SpecSignupRole == InitEngage /\ [][NextSignupRole]_vars

(***************************************************************************)
(* C27.  Signing up gives no privilege.                                    *)
(***************************************************************************)
\* the step is a call by u of a mutation reserved to editors, to journalists, or
\* to the author of article 1 (journalist 3)
ReservedCall(u) ==
    \/ \E pk \in 1..MaxCategories : m_UpdateCategory(u, CatGid(pk), Some(<<"c">>), None)
    \/ \E pk \in 1..MaxCategories : m_DeleteCategory(u, CatGid(pk))
    \/ m_CreateArticle(u, TitleC, CatGid(1), None, FALSE, None)
    \/ \E name \in TagNames : m_CreateTag(u, name)
    \/ m_UpdateArticle(u, ArtGid(1), Some(TitleB), None, None, None, None)
    \/ m_DeleteArticle(u, ArtGid(1))

\* C27: an account obtained through the public signup mutation, helped by no
\* editor, passes no editor-only or journalist-only check: its calls to update or
\* delete categories, to create articles or tags and to update or delete another
\* user's article are all denied.
C27_SignupGivesNoPrivilege ==
    [][\A u \in SignedUp : ReservedCall(u) => resp'.err \in Denied]_vars

(***************************************************************************)
(* SpecRefs: rows and the rows they name.  Reader 1 comments on, replies   *)
(* under and likes the seeded article and deletes comments, while editor 4 *)
(* deletes the article; the steps of all calls interleave in every order.  *)
(***************************************************************************)
NextRefs ==
    \/ \E parent \in {None, Some(ComGid(1))} : AddCommentLookup(1, ArtGid(1), parent)
    \/ \E i \in 1..Len(calls) : AddCommentSave(i)
    \/ m_Receive("like_article", 1, ArtGid(1))
    \/ \E i \in 1..Len(calls) : StepGet(i)
    \/ \E i \in 1..Len(calls) : StepInsert(i)
    \/ \E i \in 1..Len(calls) : StepReget(i)
    \/ \E i \in 1..Len(calls) : StepDelete(i)
    \/ m_DeleteComment(1, ComGid(1))
    \/ DeleteArticleCollect(4, ArtGid(1))
    \/ \E i \in 1..Len(calls) : DeleteArticleCommit(i)

SpecRefs == InitEngage /\ [][NextRefs]_vars

(***************************************************************************)
(* C28.  Every reference names a stored row.                               *)
(***************************************************************************)
\* C28: in every reachable state, under any interleaving of mutations, every
\* comment, like and bookmark names a stored article and a stored user, every
\* comment with a parent names a stored comment, and every article names a
\* stored author and a stored category.
C28_ReferencesResolve ==
    /\ \A c \in comments : /\ c.article \in Ids(articles) /\ c.user \in Ids(users)
                            /\ (IsNone(c.parent) \/ Val(c.parent) \in Ids(comments))
    /\ \A r \in likes \cup bookmarks : r.article \in Ids(articles) /\ r.user \in Ids(users)
    /\ \A a \in articles : a.author \in Ids(users) /\ a.category \in Ids(categories)

\* a comment or a like was about to be inserted when the article was deleted
\* under it: the insert was refused, or the delete was
C28_Witness ==
    \E i \in 1..Len(calls), j \in 1..Len(calls) :
        /\ calls[i].op \in {"add_comment", "like_article"} /\ calls[i].err = "integrity"
        /\ calls[j].op = "delete_article" /\ calls[j].err = "ok" /\ calls[j].pc = "done"

(***************************************************************************)
(* C29.  Reply threads are finite and acyclic.                             *)
(***************************************************************************)
\* C29: a comment's parent is fixed when the comment is created, to a comment
\* that existed before it, and no call changes it afterwards: every parent named
\* is a stored comment created earlier (of smaller id), so following parent
\* links always ends at a top-level comment.
C29_ThreadsEndAtTopLevel ==
    [][/\ \A c \in comments, d \in comments' : c.id = d.id => d.parent = c.parent
       /\ \A d \in comments' :
              IsNone(d.parent) \/ \E e \in comments' : e.id = Val(d.parent) /\ e.id < d.id]_vars

\* a reply to a reply to a top-level comment
C29_Witness ==
    \E c \in comments, d \in comments, e \in comments :
        c.parent = Some(d.id) /\ d.parent = Some(e.id) /\ IsNone(e.parent)

(***************************************************************************)
(* SpecListings: what the listings show.  Journalist 2 creates a tag and   *)
(* articles, draft and published, featured or not, tagged or not, and      *)
(* publishes them; anyone calls the listings of both modules.              *)
(***************************************************************************)
ListingLimits == {1, 10}

ListingStatuses == {None, Some("draft"), Some("published")}

NextListings ==
    \/ s_CreateTag(2, TitleC)
    \/ \E t \in {TitleA, TitleC}, f \in BOOLEAN, st \in StatusArgs, g \in {None, Some(<<1>>)} :
           s_CreateArticle(2, t, 1, g, f, st)
    \/ \E a \in 1..MaxArticles : m_UpdateArticle(2, ArtGid(a), None, None, None, None,
                                                   Some("published"))
    \/ \E q \in {None, Some(<<"b">>)}, c \in SlugFilters, st \in ListingStatuses :
           Answer("articles", "q", q_Articles(q, c, st))
    \/ \E st \in ListingStatuses : Answer("articles", "s", s_Articles(st))
    \/ \E fac \in {"q", "s"} : Answer("featured_articles", fac, FeaturedArticles)
    \/ \E fac \in {"q", "s"}, limit \in ListingLimits :
           \E S \in RecentArticles(limit) : Answer("recent_articles", fac, S)
    \/ \E fac \in {"q", "s"}, limit \in ListingLimits :
           \E S \in PopularArticles(limit) : Answer("popular_articles", fac, S)
    \/ \E pk \in 1..MaxCategories : q_ResolveArticlesByCategory(CatGid(pk))
    \/ \E pk \in 1..MaxTags : q_ResolveArticlesByTag(to_global_id("TagType", pk))
    \/ \E slug \in {<<"a">>, <<"b">>} :
           Answer("articles_by_category", "s", s_ArticlesByCategory(slug))
    \/ \E slug \in {<<"a">>, <<"b">>} : Answer("articles_by_tag", "s", s_ArticlesByTag(slug))

SpecListings == Init /\ [][NextListings]_vars

(***************************************************************************)
(* C30.  Listings show published articles only.                            *)
(***************************************************************************)
ListingOps == {"featured_articles", "recent_articles", "popular_articles",
               "articles_by_category", "articles_by_tag"}

\* every article of the answer is published
AnswersPublishedOnly == \A a \in articles' : a.id \in resp'.found => a.status = "published"

\* the step is a call of the articles listing without a status argument
ArticlesCallWithoutStatus ==
    \/ \E q \in {None, Some(<<"b">>)}, c \in SlugFilters :
           Answer("articles", "q", q_Articles(q, c, None))
    \/ Answer("articles", "s", s_Articles(None))

\* C30: the featured, recent, popular, by-category and by-tag listings, and the
\* articles listing called without a status argument, answer with published
\* articles only: no draft is in their results.
C30_ListingsShowPublishedOnly ==
    [][/\ (resp'.op \in ListingOps) => AnswersPublishedOnly
       /\ (resp'.op = "articles" /\ ArticlesCallWithoutStatus) => AnswersPublishedOnly]_vars

====
